---- MODULE Spec2Model ----
(***************************************************************************)
(* ArcRelay x402 gateway: the proxy's nonce registry and request handler,  *)
(* the facilitator's /verify and /settle handlers, and the token contract  *)
(* they settle against.                                                    *)
(***************************************************************************)
EXTENDS Integers, Sequences, FiniteSets, TLC

\* ------------------------------------------------------------------ bounds
\* Seconds the wall clock may reach.
MaxTime == 2
\* Nonces generateNonce() may hand out.
MaxNonce == 2
\* Requests the proxy receives.
NumProxyRequests == 3
\* Requests sent straight to the facilitator, not through the proxy.
NumDirectRequests == 2
\* maxTimeoutSeconds of the priced endpoints.
TimeoutA == 2
TimeoutB == 1
\* Calls made on the nonce registry alone (SpecRegistry).
MaxCalls == 3

Null == "null"

\* ------------------------------------------------------------- addresses
\* An address is a hex string; two lower-case addresses are equal iff they
\* are the same account. The mixed-case strings are the EIP-55 forms.
Payer == "0xpayer"
Mallory == "0xmallory"
WalletArc == "0xwalletarc"
WalletBase == "0xwalletbase"
TokenArc == "0xtokenarc"
TokenBase == "0xtokenbase"
Unrelated == "0xUnrelated"

\* String.prototype.toLowerCase on the addresses of the model.
toLowerCase(a) ==
  CASE a = "0xPayer" -> "0xpayer"
    [] a = "0xMallory" -> "0xmallory"
    [] a = "0xWalletArc" -> "0xwalletarc"
    [] a = "0xWalletBase" -> "0xwalletbase"
    [] a = "0xTokenArc" -> "0xtokenarc"
    [] a = "0xTokenBase" -> "0xtokenbase"
    [] a = "0xUnrelated" -> "0xunrelated"
    [] OTHER -> a

\* viem returns recovered addresses in checksum (mixed-case) form.
getAddress(a) ==
  CASE a = "0xpayer" -> "0xPayer"
    [] a = "0xmallory" -> "0xMallory"
    [] a = "0xwalletarc" -> "0xWalletArc"
    [] a = "0xwalletbase" -> "0xWalletBase"
    [] a = "0xtokenarc" -> "0xTokenArc"
    [] a = "0xtokenbase" -> "0xTokenBase"
    [] OTHER -> a

\* BigInt(string) on the decimal strings of the model.
BigInt(s) ==
  CASE s = "1" -> 1
    [] s = "01" -> 1
    [] s = "2" -> 2
    [] s = "0" -> 0
    [] OTHER -> -1

\* ------------------------------------------------- facilitator networks
\* networkContexts: one context per initialised chain.
FacilitatorNetworks == {"arc-testnet", "base-sepolia"}

networkContexts(network) ==
  IF network = "arc-testnet"
    THEN [usdcAddress |-> getAddress(TokenArc), usdcName |-> "USDC", usdcVersion |-> "2",
          chainId |-> "5042002", walletAddress |-> getAddress(WalletArc)]
    ELSE [usdcAddress |-> getAddress(TokenBase), usdcName |-> "USDC", usdcVersion |-> "2",
          chainId |-> "84532", walletAddress |-> getAddress(WalletBase)]

\* ----------------------------------------------------- typed-data digest
\* keccak256 is collision free here: a digest is the tuple of what was hashed.
\* Addresses are ABI-encoded as 20 bytes (case is lost), value as uint256.
createDomainSeparator(tokenAddress, tokenName, tokenVersion, chainId) ==
  [verifyingContract |-> toLowerCase(tokenAddress), name |-> tokenName,
   version |-> tokenVersion, chainId |-> chainId]

TransferDigest(auth, tokenAddress, tokenName, tokenVersion, chainId) ==
  [domain |-> createDomainSeparator(tokenAddress, tokenName, tokenVersion, chainId),
   from |-> toLowerCase(auth.from), to |-> toLowerCase(auth.to),
   value |-> BigInt(auth.value), validAfter |-> auth.validAfter,
   validBefore |-> auth.validBefore, nonce |-> auth.nonce]

\* An ECDSA signature (v, r, s). key and msg say which key produced (r, s)
\* over which digest; the canonical signature has v = 27, r = "r0", s = "s0".
signTransferAuthorization(auth, tokenAddress, tokenName, tokenVersion, chainId, key) ==
  [v |-> 27, r |-> "r0", s |-> "s0", key |-> key,
   msg |-> TransferDigest(auth, tokenAddress, tokenName, tokenVersion, chainId)]

\* A recovery that does not depend on v, r and s.
recoverAddressOfKey(digest, sig) == getAddress(sig.key)

\* viem recoverAddress: the signer for the digest that was signed, an
\* unrelated address for any other digest or any altered component.
recoverAddress(digest, sig) ==
  IF sig.msg = digest /\ sig.v = 27 /\ sig.r = "r0" /\ sig.s = "s0"
    THEN getAddress(sig.key)
    ELSE Unrelated

\* A digest recovery without the test of s against half the curve order.
recoverAddressFromDigestAnyS(digest, sig) ==
  IF sig.r = "zero" \/ sig.s = "zero" THEN Null
  ELSE recoverAddress(digest, sig)

recoverAddressFromDigest(digest, sig) ==
  IF sig.s = "high" THEN Null
  ELSE IF sig.r = "zero" \/ sig.s = "zero" THEN Null
  ELSE recoverAddress(digest, sig)

verifyTransferAuthorization(auth, sig, tokenAddress, tokenName, tokenVersion, chainId) ==
  IF sig.v # 27 /\ sig.v # 28 THEN Null
  ELSE IF BigInt(auth.value) < 0 THEN Null
  ELSE recoverAddressFromDigest(
         TransferDigest(auth, tokenAddress, tokenName, tokenVersion, chainId), sig)

\* Whether verifyTransferAuthorization gets as far as the call of viem's
\* recoverAddress: past the test of v, the encoding of the authorization,
\* and the tests of s and r in recoverAddressFromDigest.
ReachesRecoverAddress(auth, sig) ==
  /\ sig.v \in {27, 28}
  /\ BigInt(auth.value) >= 0
  /\ sig.s # "high"
  /\ sig.r # "zero" /\ sig.s # "zero"

\* ------------------------------------------------------ payment verifier
IsDecimal(s) == s \in {"0", "1", "01", "2"}

\* ensureRequirements: Null when the requirement is acceptable, else the reason.
\* (BigInt throws on a string that is no number: see EnsureRequirementsThrows.)
ensureRequirements(req, context) ==
  IF req.scheme # "exact" THEN "Unsupported payment scheme"
  ELSE IF req.network \notin FacilitatorNetworks THEN "Unsupported network"
  ELSE IF toLowerCase(req.token) # toLowerCase(context.usdcAddress) THEN "Unsupported token"
  ELSE IF toLowerCase(req.recipient) # toLowerCase(context.walletAddress)
    THEN "Recipient does not match Circle wallet address"
  ELSE IF IsDecimal(req.amount) /\ BigInt(req.amount) <= 0 THEN "Amount must be positive"
  ELSE Null

EnsureRequirementsThrows(req, context) ==
  /\ req.scheme = "exact"
  /\ req.network \in FacilitatorNetworks
  /\ toLowerCase(req.token) = toLowerCase(context.usdcAddress)
  /\ toLowerCase(req.recipient) = toLowerCase(context.walletAddress)
  /\ ~IsDecimal(req.amount)

toAuthorization(paymentPayload) ==
  [from |-> paymentPayload.payload.from, to |-> paymentPayload.payload.to,
   value |-> paymentPayload.payload.value,
   validAfter |-> paymentPayload.payload.validAfter,
   validBefore |-> paymentPayload.payload.validBefore,
   nonce |-> paymentPayload.payload.nonce]

toSignature(paymentPayload) ==
  [v |-> paymentPayload.payload.v, r |-> paymentPayload.payload.r,
   s |-> paymentPayload.payload.s, key |-> paymentPayload.payload.key,
   msg |-> paymentPayload.payload.msg]

\* A field match that takes any value of at least the required amount.
FieldMismatchAtLeast(paymentPayload, requirements) ==
  IF paymentPayload.scheme # "exact" \/ paymentPayload.network # requirements.network
    THEN "Payment payload network mismatch"
  ELSE IF BigInt(paymentPayload.payload.value) < BigInt(requirements.amount)
    THEN "Payment amount mismatch"
  ELSE IF toLowerCase(paymentPayload.payload.to) # toLowerCase(requirements.recipient)
    THEN "Payment recipient mismatch"
  ELSE Null

\* verifyAuthorization, step 1: scheme, network, amount and recipient.
FieldMismatch(paymentPayload, requirements) ==
  IF paymentPayload.scheme # "exact" \/ paymentPayload.network # requirements.network
    THEN "Payment payload network mismatch"
  ELSE IF paymentPayload.payload.value # requirements.amount
    THEN "Payment amount mismatch"
  ELSE IF toLowerCase(paymentPayload.payload.to) # toLowerCase(requirements.recipient)
    THEN "Payment recipient mismatch"
  ELSE Null

\* A signature step that takes any signature that recovers to an address.
SignatureMismatchAnySigner(paymentPayload, requirements, context) ==
  LET auth == toAuthorization(paymentPayload)
      recovered == verifyTransferAuthorization(auth, toSignature(paymentPayload),
                     requirements.token, context.usdcName, context.usdcVersion,
                     context.chainId)
  IN IF recovered = Null THEN "Invalid EIP-3009 signature" ELSE Null

\* verifyAuthorization, the signature step: the signer must be auth.from.
SignatureMismatch(paymentPayload, requirements, context) ==
  LET auth == toAuthorization(paymentPayload)
      recovered == verifyTransferAuthorization(auth, toSignature(paymentPayload),
                     requirements.token, context.usdcName, context.usdcVersion,
                     context.chainId)
  IN IF recovered = Null \/ toLowerCase(recovered) # toLowerCase(auth.from)
       THEN "Invalid EIP-3009 signature"
       ELSE Null

\* A verifier that recovers the signer before it matches the fields.
BeforeReadSignatureFirst(paymentPayload, requirements, context) ==
  IF SignatureMismatch(paymentPayload, requirements, context) # Null
    THEN SignatureMismatch(paymentPayload, requirements, context)
    ELSE FieldMismatch(paymentPayload, requirements)

\* verifyAuthorization up to the await of readContract.
BeforeRead(paymentPayload, requirements, context) ==
  IF FieldMismatch(paymentPayload, requirements) # Null
    THEN FieldMismatch(paymentPayload, requirements)
    ELSE SignatureMismatch(paymentPayload, requirements, context)

\* The checks verifyAuthorization evaluates before it awaits readContract.
StepsBeforeRead(paymentPayload, requirements) ==
  IF FieldMismatch(paymentPayload, requirements) # Null
    THEN <<"fields">>
    ELSE <<"fields", "signature">>

\* A replay step that does not look at what the read answered.
ReplayCheckIgnored(alreadyUsed) == Null

\* verifyAuthorization, the replay step.
ReplayCheck(alreadyUsed) ==
  IF alreadyUsed THEN "Authorization already used" ELSE Null

\* A validity window that is closed at both ends.
ValidityWindowClosed(auth, nowTs) ==
  IF nowTs < auth.validAfter THEN "Authorization not yet valid"
  ELSE IF nowTs > auth.validBefore THEN "Authorization expired"
  ELSE Null

\* verifyAuthorization, the validity window at nowTs.
ValidityWindow(auth, nowTs) ==
  IF nowTs <= auth.validAfter THEN "Authorization not yet valid"
  ELSE IF nowTs >= auth.validBefore THEN "Authorization expired"
  ELSE Null

\* verifyAuthorization after readContract has answered alreadyUsed.
AfterRead(paymentPayload, alreadyUsed, nowTs) ==
  IF ReplayCheck(alreadyUsed) # Null
    THEN ReplayCheck(alreadyUsed)
    ELSE ValidityWindow(toAuthorization(paymentPayload), nowTs)

\* ---------------------------------------------------------- nonce registry
\* pendingNonces is a Map from key to expiresAt: a function on the keys it holds.
\* A key made of the nonce alone.
buildNonceKeyOfNonce(endpoint, nonce) == <<"", "", nonce>>

buildNonceKey(endpoint, nonce) == <<endpoint.method, endpoint.path, nonce>>

\* A sweep that keeps a record through the second it expires in.
cleanupExpiredNoncesLate(pending, nowSeconds) ==
  [k \in {x \in DOMAIN pending : ~(pending[x] < nowSeconds)} |-> pending[k]]

cleanupExpiredNonces(pending, nowSeconds) ==
  [k \in {x \in DOMAIN pending : ~(pending[x] <= nowSeconds)} |-> pending[k]]

\* An issue that starts the registry afresh.
issueNonceAlone(pending, endpoint, nonce, validAfter) ==
  [k \in {buildNonceKey(endpoint, nonce)} |-> validAfter + endpoint.maxTimeoutSeconds]

\* issueNonce: the registry after issuing nonce for endpoint at validAfter.
issueNonce(pending, endpoint, nonce, validAfter) ==
  LET swept == cleanupExpiredNonces(pending, validAfter)
      key == buildNonceKey(endpoint, nonce)
  IN [k \in DOMAIN swept \cup {key} |->
        IF k = key THEN validAfter + endpoint.maxTimeoutSeconds ELSE swept[k]]

\* A consume that deletes the key and reports success whatever delete found.
consumeNonceResultAlways(pending, endpoint, nonce, nowSeconds) == TRUE

\* consumeNonce: Map.delete's result, and the registry it leaves.
consumeNonceResult(pending, endpoint, nonce, nowSeconds) ==
  buildNonceKey(endpoint, nonce) \in DOMAIN cleanupExpiredNonces(pending, nowSeconds)

\* A consume that only looks the key up.
consumeNonceUntouched(pending, endpoint, nonce, nowSeconds) == pending

\* A consume that sweeps and looks the key up but leaves it in the Map.
consumeNonceNoDelete(pending, endpoint, nonce, nowSeconds) ==
  cleanupExpiredNonces(pending, nowSeconds)

consumeNonce(pending, endpoint, nonce, nowSeconds) ==
  LET swept == cleanupExpiredNonces(pending, nowSeconds)
  IN [k \in DOMAIN swept \ {buildNonceKey(endpoint, nonce)} |-> swept[k]]

\* ------------------------------------------------------------ proxy config
EndpointA ==
  [method |-> "GET", path |-> "/a", price |-> "1", scheme |-> "exact",
   maxTimeoutSeconds |-> TimeoutA, autoSettle |-> TRUE]

EndpointB ==
  [method |-> "GET", path |-> "/b", price |-> "2", scheme |-> "exact",
   maxTimeoutSeconds |-> TimeoutB, autoSettle |-> FALSE]

Endpoints == {EndpointA, EndpointB}

\* What GET /networks of the facilitator reports for a network.
FacilitatorNetworkMetadata(network) ==
  [network |-> network, token |-> networkContexts(network).usdcAddress,
   recipient |-> networkContexts(network).walletAddress]

createRequirementForNetwork(endpoint, metadata) ==
  [scheme |-> endpoint.scheme, network |-> metadata.network, token |-> metadata.token,
   amount |-> endpoint.price, recipient |-> metadata.recipient,
   maxTimeoutSeconds |-> endpoint.maxTimeoutSeconds]

\* ------------------------------------------------------------ wire payload

MakePayload(network, from, to, value, validAfter, validBefore, nonce, sig) ==
  [x402Version |-> 1, scheme |-> "exact", network |-> network,
   payload |-> [from |-> from, to |-> to, value |-> value, validAfter |-> validAfter,
                validBefore |-> validBefore, nonce |-> nonce,
                v |-> sig.v, r |-> sig.r, s |-> sig.s, key |-> sig.key, msg |-> sig.msg]]

\* A payload a client signs with key for the offer of network.
SignedPayload(network, from, to, value, validAfter, validBefore, nonce, key) ==
  LET auth == [from |-> from, to |-> to, value |-> value, validAfter |-> validAfter,
               validBefore |-> validBefore, nonce |-> nonce]
      ctx == networkContexts(network)
  IN MakePayload(network, from, to, value, validAfter, validBefore, nonce,
       signTransferAuthorization(auth, ctx.usdcAddress, ctx.usdcName, ctx.usdcVersion,
                                 ctx.chainId, key))

\* normalizeSignature: the fields a decoded payload must carry.
normalizeSignature(payload) ==
  /\ payload.x402Version # 0 /\ payload.scheme # "" /\ payload.network # ""
  /\ payload.payload.from # "" /\ payload.payload.to # "" /\ payload.payload.value # ""
  /\ payload.payload.nonce # 0
  /\ payload.payload.r # "" /\ payload.payload.s # ""
  /\ payload.payload.v \in {27, 28}

EmptyPayload ==
  MakePayload("", "", "", "", 0, 0, 0,
    [v |-> 0, r |-> "", s |-> "", key |-> "",
     msg |-> TransferDigest([from |-> "", to |-> "", value |-> "", validAfter |-> 0,
                             validBefore |-> 0, nonce |-> 0], "", "", "", "")])

\* A request's X-Payment / X-Token header: absent, not decodable, or the
\* base64 JSON of a payload.
NoHeader == [kind |-> "none", payload |-> EmptyPayload]
Garbage == [kind |-> "garbage", payload |-> EmptyPayload]
HeaderOf(payload) == [kind |-> "payload", payload |-> payload]

\* decodePaymentHeader: ok is FALSE where the code returns null.
decodePaymentHeader(header) ==
  IF header.kind # "payload" THEN [ok |-> FALSE, payload |-> EmptyPayload]
  ELSE IF normalizeSignature(header.payload) THEN [ok |-> TRUE, payload |-> header.payload]
  ELSE [ok |-> FALSE, payload |-> EmptyPayload]

\* ------------------------------------------------------------------ state
VARIABLES
  now,                      \* Math.floor(Date.now() / 1000)
  pendingNonces,            \* the proxy's Map of issued nonces
  generated,                \* how many nonces generateNonce() has produced
  facilitatorNetworkCache,  \* the proxy's cache of GET /networks
  preq,                     \* the proxy's request handlers
  fac,                      \* the facilitator's request handlers, by caller
  authorizationState,       \* the token contracts' used (token, from, nonce)
  submitted,                \* transferWithAuthorization calls handed to Circle
  calls,                    \* the registry calls made so far, with their results
  selection,                \* a call of selectTokensForTransfer: arguments and outcome
  transfer,                 \* POST /gateway/transfer: the request being handled
  codec,                    \* a payment header being encoded and decoded
  deposit                   \* a call of depositToGateway, seen poll by poll

vars ==
  <<now, pendingNonces, generated, facilitatorNetworkCache, preq, fac,
    authorizationState, submitted, calls, selection, transfer, codec, deposit>>

ProxyRequests == 1..NumProxyRequests
DirectRequests == (NumProxyRequests + 1)..(NumProxyRequests + NumDirectRequests)
Callers == ProxyRequests \cup DirectRequests
Nonces == 1..MaxNonce

NotLoaded == [loaded |-> FALSE, networks |-> {}]

EmptyRequirements ==
  [scheme |-> "", network |-> "", token |-> "", amount |-> "", recipient |-> "",
   maxTimeoutSeconds |-> 0]

ProxyIdle ==
  [pc |-> "idle", endpoint |-> EndpointA, header |-> NoHeader, message |-> "",
   consumed |-> FALSE, verified |-> FALSE, status |-> 0, error |-> "",
   offer |-> 0, accepts |-> {}, forwarded |-> FALSE, settlement |-> ""]

FacIdle ==
  [pc |-> "idle", kind |-> "", hasPayload |-> FALSE, paymentPayload |-> EmptyPayload,
   hasRequirements |-> FALSE, requirements |-> EmptyRequirements,
   steps |-> <<>>, readDone |-> FALSE, alreadyUsed |-> FALSE, checkedAt |-> -1,
   status |-> 0, ok |-> FALSE, error |-> "", tx |-> 0, state |-> ""]

\* No call of selectTokensForTransfer has been made.
NoSelection ==
  [pc |-> "none", balances |-> <<>>, requestedAmount |-> 0, selected |-> <<>>,
   error |-> [need |-> 0, have |-> 0]]

\* No /gateway/transfer request has been received. built holds every burn
\* intent createBurnIntent has returned and drawn counts randomBytes(32) calls:
\* both outlive a request. retriedOn is the message of the error a retry
\* loop last caught and did not throw on.
NoTransfer ==
  [pc |-> "idle", request |-> 0, amountBigInt |-> 0, maxFee |-> 0,
   totalRequired |-> 0, balances |-> <<>>, selected |-> <<>>, token |-> 0,
   attempt |-> 0, issued |-> <<>>, depositTxIds |-> <<>>,
   burnIntentRequests |-> <<>>, attestations |-> <<>>, mintTxHashes |-> <<>>,
   status |-> 0, error |-> "", retriedOn |-> "", built |-> <<>>, drawn |-> 0]

\* No payment header has been encoded.
NoCodec == [pc |-> "none"]

\* depositToGateway has not been called. escrow is the balance the Gateway
\* balances API reports for (domain, depositor), txState the Circle state of
\* the transaction being polled, credited whether the Gateway has indexed
\* the deposit.
NoDeposit ==
  [pc |-> "idle", amount |-> 0, escrow |-> 0, escrowBefore |-> 0, txState |-> "",
   credited |-> FALSE, gatewayBalanceBefore |-> 0, attempt |-> 0, reads |-> 0,
   slept |-> 0, polls |-> 0, lastRead |-> "", returned |-> FALSE, error |-> ""]

Init ==
  /\ now = 0
  /\ pendingNonces = <<>>
  /\ generated = 0
  /\ facilitatorNetworkCache = NotLoaded
  /\ preq = [p \in ProxyRequests |-> ProxyIdle]
  /\ fac = [c \in Callers |-> FacIdle]
  /\ authorizationState = {}
  /\ submitted = <<>>
  /\ calls = <<>>
  /\ selection = NoSelection
  /\ transfer = NoTransfer
  /\ codec = NoCodec
  /\ deposit = NoDeposit

\* Date.now() advances between any two steps.
Tick ==
  /\ now < MaxTime
  /\ now' = now + 1
  /\ UNCHANGED <<pendingNonces, generated, facilitatorNetworkCache, preq, fac,
                 authorizationState, submitted, calls, selection, transfer, codec, deposit>>

\* ------------------------------------------------------------------ proxy
\* The payloads clients present to the proxy: the payer's authorization of
\* the price of endpoint A or of endpoint B under the first nonce offered,
\* valid for 0 < now < MaxTime.
ClientPayloads ==
  {SignedPayload("arc-testnet", Payer, WalletArc, value, 0, MaxTime, 1, Payer) :
     value \in {"1", "2"}}

ClientHeaders == {NoHeader, Garbage} \cup {HeaderOf(pl) : pl \in ClientPayloads}

\* The proxy's catch block: 402 with the error's message, no offer.
ProxyCatch(r, message) ==
  [r EXCEPT !.pc = "done", !.status = 402, !.error = message]

\* fetch(`${facilitatorUrl}/verify` or /settle): the request the facilitator gets.
FacRequest(kind, paymentPayload, requirements) ==
  [FacIdle EXCEPT !.pc = "sent", !.kind = kind, !.hasPayload = TRUE,
                  !.paymentPayload = paymentPayload, !.hasRequirements = TRUE,
                  !.requirements = requirements]

\* The request handler up to its first await: find the header, decode it,
\* consume its nonce, build the requirement and call /verify.
ProxyReceive(p, endpoint, header) ==
  LET decoded == decodePaymentHeader(header)
      nonceUsed == decoded.payload.payload.nonce
      network == decoded.payload.network
      r == [preq[p] EXCEPT !.endpoint = endpoint, !.header = header]
  IN
  /\ preq[p].pc = "idle"
  /\ \A q \in ProxyRequests : q < p => preq[q].pc # "idle"
  /\ IF header.kind = "none"
       THEN /\ preq' = [preq EXCEPT ![p] = [r EXCEPT !.pc = "respond",
                                                     !.message = "Payment Required"]]
            /\ UNCHANGED <<pendingNonces, fac>>
     ELSE IF ~decoded.ok
       THEN /\ preq' = [preq EXCEPT ![p] = [r EXCEPT !.pc = "respond",
                                                     !.message = "Invalid payment payload"]]
            /\ UNCHANGED <<pendingNonces, fac>>
     ELSE IF ~consumeNonceResult(pendingNonces, endpoint, nonceUsed, now)
       THEN /\ pendingNonces' = consumeNonce(pendingNonces, endpoint, nonceUsed, now)
            /\ preq' = [preq EXCEPT ![p] = [r EXCEPT !.pc = "respond",
                          !.message = "Invoice expired - request a new payment"]]
            /\ UNCHANGED fac
     ELSE /\ pendingNonces' = consumeNonce(pendingNonces, endpoint, nonceUsed, now)
          /\ IF network \in facilitatorNetworkCache.networks
               THEN /\ preq' = [preq EXCEPT ![p] = [r EXCEPT !.pc = "verify",
                                                             !.consumed = TRUE]]
                    /\ fac' = [fac EXCEPT ![p] = FacRequest("verify", decoded.payload,
                                 createRequirementForNetwork(endpoint,
                                   FacilitatorNetworkMetadata(network)))]
               ELSE /\ preq' = [preq EXCEPT ![p] =
                                  ProxyCatch([r EXCEPT !.consumed = TRUE],
                                             "Network not supported by facilitator")]
                    /\ UNCHANGED fac
  /\ UNCHANGED <<now, generated, facilitatorNetworkCache, authorizationState, submitted, calls, selection, transfer, codec, deposit>>

\* An accepts list that offers one network only.
AcceptsForOneNetwork(endpoint, networks, nonce) ==
  LET req == createRequirementForNetwork(endpoint,
               FacilitatorNetworkMetadata(CHOOSE n \in networks : TRUE))
  IN {[scheme |-> req.scheme, network |-> req.network,
       maxAmountRequired |-> req.amount, payTo |-> req.recipient,
       maxTimeoutSeconds |-> req.maxTimeoutSeconds, asset |-> req.token,
       nonce |-> nonce]}

\* respondWithPaymentRequired: networks.map(...), the entry it builds from
\* the metadata of each cached network, every one with nonceInfo.nonce.
AcceptsFor(endpoint, networks, nonce) ==
  {LET req == createRequirementForNetwork(endpoint, FacilitatorNetworkMetadata(n))
   IN [scheme |-> req.scheme, network |-> req.network,
       maxAmountRequired |-> req.amount, payTo |-> req.recipient,
       maxTimeoutSeconds |-> req.maxTimeoutSeconds, asset |-> req.token,
       nonce |-> nonce] : n \in networks}

\* respondWithPaymentRequired after ensureFacilitatorNetworks: with networks
\* cached it issues a nonce and answers 402 with one offer per network.
RespondWithOffer(p, networks) ==
  /\ generated < MaxNonce
  /\ generated' = generated + 1
  /\ pendingNonces' = issueNonce(pendingNonces, preq[p].endpoint, generated + 1, now)
  /\ preq' = [preq EXCEPT ![p] = [@ EXCEPT !.pc = "done", !.status = 402,
                                           !.error = preq[p].message,
                                           !.offer = generated + 1,
                                           !.accepts = AcceptsFor(preq[p].endpoint,
                                                          networks, generated + 1)]]

RespondUnavailable(p) ==
  /\ preq' = [preq EXCEPT ![p] = [@ EXCEPT !.pc = "done", !.status = 503,
                                           !.error = "Facilitator networks unavailable"]]
  /\ UNCHANGED <<pendingNonces, generated>>

\* respondWithPaymentRequired with the networks already cached.
ProxyRespond(p) ==
  /\ preq[p].pc = "respond"
  /\ facilitatorNetworkCache.loaded
  /\ IF facilitatorNetworkCache.networks = {}
       THEN RespondUnavailable(p)
       ELSE RespondWithOffer(p, facilitatorNetworkCache.networks)
  /\ UNCHANGED <<now, facilitatorNetworkCache, fac, authorizationState, submitted, calls, selection, transfer, codec, deposit>>

\* respondWithPaymentRequired when GET /networks has to be fetched first and
\* answers the list networks.
ProxyRespondLoading(p, networks) ==
  /\ preq[p].pc = "respond"
  /\ ~facilitatorNetworkCache.loaded
  /\ facilitatorNetworkCache' = [loaded |-> TRUE, networks |-> networks]
  /\ IF networks = {} THEN RespondUnavailable(p) ELSE RespondWithOffer(p, networks)
  /\ UNCHANGED <<now, fac, authorizationState, submitted, calls, selection, transfer, codec, deposit>>

\* respondWithPaymentRequired when GET /networks fails: the handler's catch.
ProxyRespondLoadFailed(p) ==
  /\ preq[p].pc = "respond"
  /\ ~facilitatorNetworkCache.loaded
  /\ preq' = [preq EXCEPT ![p] = ProxyCatch(@, "Failed to load facilitator networks")]
  /\ UNCHANGED <<now, pendingNonces, generated, facilitatorNetworkCache, fac,
                 authorizationState, submitted, calls, selection, transfer, codec, deposit>>

\* ------------------------------------------------------------ facilitator
FacRespond(f, status, ok, error) ==
  [f EXCEPT !.pc = "done", !.status = status, !.ok = ok, !.error = error]

\* A catch block that answers 400 on both routes.
FacThrowBadRequest(f, error) == FacRespond(f, 400, FALSE, error)

\* A catch block that answers 200 on both routes.
FacThrowOk(f, error) == FacRespond(f, 200, FALSE, error)

\* A thrown error: /verify answers 200 valid:false, /settle answers 400.
FacThrow(f, error) ==
  IF f.kind = "verify" THEN FacRespond(f, 200, FALSE, error)
                       ELSE FacRespond(f, 400, FALSE, error)

\* /verify and /settle up to the await of readContract: the request checks,
\* the field match and the signature recovery.
FacReceive(c) ==
  LET f == fac[c]
      req == f.requirements
      ctx == networkContexts(req.network)
  IN
  /\ f.pc = "sent"
  /\ fac' = [fac EXCEPT ![c] =
       IF ~f.hasRequirements
         THEN FacRespond(f, 400, FALSE, "Missing payment requirements")
       ELSE IF req.network \notin FacilitatorNetworks
         THEN FacRespond(f, 400, FALSE, "Unsupported network")
       ELSE IF ensureRequirements(req, ctx) # Null
         THEN FacRespond(f, 400, FALSE, ensureRequirements(req, ctx))
       ELSE IF EnsureRequirementsThrows(req, ctx)
         THEN FacThrow(f, "Cannot convert amount to a BigInt")
       ELSE IF ~f.hasPayload
         THEN FacThrow(f, "Missing payment payload")
       ELSE IF BeforeRead(f.paymentPayload, req, ctx) # Null
         THEN FacThrow([f EXCEPT !.steps = StepsBeforeRead(f.paymentPayload, req)],
                       BeforeRead(f.paymentPayload, req, ctx))
       ELSE [f EXCEPT !.pc = "reading",
                      !.steps = StepsBeforeRead(f.paymentPayload, req)]]
  /\ UNCHANGED <<now, pendingNonces, generated, facilitatorNetworkCache, preq,
                 authorizationState, submitted, calls, selection, transfer, codec, deposit>>

\* The token contract's replay key of an authorization.
AuthorizationKey(token, auth) == <<toLowerCase(token), toLowerCase(auth.from), auth.nonce>>

\* readContract authorizationState(from, nonce): the node evaluates the view.
FacRead(c) ==
  LET f == fac[c] IN
  /\ f.pc = "reading"
  /\ fac' = [fac EXCEPT ![c] = [f EXCEPT !.pc = "answered", !.readDone = TRUE,
       !.steps = Append(f.steps, "replay"),
       !.alreadyUsed = AuthorizationKey(f.requirements.token,
                         toAuthorization(f.paymentPayload)) \in authorizationState]]
  /\ UNCHANGED <<now, pendingNonces, generated, facilitatorNetworkCache, preq,
                 authorizationState, submitted, calls, selection, transfer, codec, deposit>>

\* The rest of verifyAuthorization once the read has answered, and what the
\* route does next: /verify answers valid:true, /settle hands the
\* transferWithAuthorization call to Circle.
FacDecide(c) ==
  LET f == fac[c]
      failure == AfterRead(f.paymentPayload, f.alreadyUsed, now)
      g == IF f.alreadyUsed THEN f
           ELSE [f EXCEPT !.checkedAt = now, !.steps = Append(f.steps, "window")]
  IN
  /\ f.pc = "answered"
  /\ IF failure # Null
       THEN /\ fac' = [fac EXCEPT ![c] = FacThrow(g, failure)]
            /\ UNCHANGED submitted
     ELSE IF f.kind = "verify"
       THEN /\ fac' = [fac EXCEPT ![c] = FacRespond(g, 200, TRUE, "")]
            /\ UNCHANGED submitted
     ELSE /\ submitted' = Append(submitted,
               [token |-> f.requirements.token,
                authorization |-> toAuthorization(f.paymentPayload),
                by |-> c, state |-> "pending"])
          /\ fac' = [fac EXCEPT ![c] = [g EXCEPT !.pc = "submitted",
                                                 !.tx = Len(submitted) + 1]]
  /\ UNCHANGED <<now, pendingNonces, generated, facilitatorNetworkCache, preq,
                 authorizationState, calls, selection, transfer, codec, deposit>>

\* Circle's state for a transaction, from what became of it on chain.
CircleState(txState) ==
  CASE txState = "pending" -> "INITIATED"
    [] txState = "mined" -> "COMPLETE"
    [] OTHER -> "FAILED"

successStates == {"CLEARED", "COMPLETE", "CONFIRMED", "SENT"}

\* /settle after createContractExecutionTransaction has answered.
FacSettleRespond(c) ==
  LET f == fac[c]
      state == CircleState(submitted[f.tx].state)
  IN
  /\ f.pc = "submitted"
  /\ fac' = [fac EXCEPT ![c] =
       [FacRespond(f, 200, state \in successStates, "") EXCEPT !.state = state]]
  /\ UNCHANGED <<now, pendingNonces, generated, facilitatorNetworkCache, preq,
                 authorizationState, submitted, calls, selection, transfer, codec, deposit>>

\* /settle when Circle's answer carries no transaction data.
FacSettleNoData(c) ==
  /\ fac[c].pc = "submitted"
  /\ fac' = [fac EXCEPT ![c] =
       FacRespond(fac[c], 400, FALSE, "Circle did not return transaction data")]
  /\ UNCHANGED <<now, pendingNonces, generated, facilitatorNetworkCache, preq,
                 authorizationState, submitted, calls, selection, transfer, codec, deposit>>

\* ---------------------------------------------------------- token contract
\* transferWithAuthorization executes: it reverts unless the authorization
\* is unused and validAfter < block time < validBefore, and marks it used.
Mine(i) ==
  LET t == submitted[i]
      key == AuthorizationKey(t.token, t.authorization)
      accepted == /\ key \notin authorizationState
                  /\ t.authorization.validAfter < now
                  /\ now < t.authorization.validBefore
  IN
  /\ t.state = "pending"
  /\ submitted' = [submitted EXCEPT ![i].state = IF accepted THEN "mined" ELSE "reverted"]
  /\ authorizationState' = IF accepted THEN authorizationState \cup {key}
                                       ELSE authorizationState
  /\ UNCHANGED <<now, pendingNonces, generated, facilitatorNetworkCache, preq, fac, calls, selection, transfer, codec, deposit>>

\* ------------------------------------------------- proxy, after the fetches
\* proxyRequest: the upstream is called and its answer relayed.
ProxyForward(r, settlement) ==
  [r EXCEPT !.pc = "done", !.status = 200, !.forwarded = TRUE, !.settlement = settlement]

\* A reading of /verify's answer that looks at the HTTP status only.
VerifyResponseErrorStatusOnly(f) ==
  IF f.status # 200
    THEN (IF f.error # "" THEN f.error ELSE "Payment verification failed")
  ELSE Null

\* verifyPayment: the error it throws on /verify's answer, Null for valid:true.
VerifyResponseError(f) ==
  IF f.status # 200
    THEN (IF f.error # "" THEN f.error ELSE "Payment verification failed")
  ELSE IF ~f.ok
    THEN (IF f.error # "" THEN f.error ELSE "Invalid payment")
  ELSE Null

\* verifyPayment: the error it throws on /settle's answer, Null for HTTP 200.
SettleResponseError(f) ==
  IF f.status # 200
    THEN (IF f.error # "" THEN f.error ELSE "Settlement failed")
  ELSE Null

\* verifyPayment once /verify has answered.
ProxyVerifyResponse(p) ==
  LET f == fac[p]
      r == [preq[p] EXCEPT !.verified = (f.status = 200 /\ f.ok)]
  IN
  /\ preq[p].pc = "verify"
  /\ f.pc = "done"
  /\ IF VerifyResponseError(f) # Null
       THEN /\ preq' = [preq EXCEPT ![p] = ProxyCatch(r, VerifyResponseError(f))]
            /\ UNCHANGED fac
     ELSE IF r.endpoint.autoSettle
       THEN /\ preq' = [preq EXCEPT ![p] = [r EXCEPT !.pc = "settle"]]
            /\ fac' = [fac EXCEPT ![p] =
                         FacRequest("settle", f.paymentPayload, f.requirements)]
     ELSE /\ preq' = [preq EXCEPT ![p] = ProxyForward(r, "verified")]
          /\ UNCHANGED fac
  /\ UNCHANGED <<now, pendingNonces, generated, facilitatorNetworkCache,
                 authorizationState, submitted, calls, selection, transfer, codec, deposit>>

\* verifyPayment once /settle has answered.
ProxySettleResponse(p) ==
  LET f == fac[p]
      r == preq[p]
  IN
  /\ r.pc = "settle"
  /\ f.pc = "done"
  /\ preq' = [preq EXCEPT ![p] =
       IF SettleResponseError(f) # Null THEN ProxyCatch(r, SettleResponseError(f))
       ELSE ProxyForward(r, IF f.ok THEN "completed" ELSE "failed")]
  /\ UNCHANGED <<now, pendingNonces, generated, facilitatorNetworkCache, fac,
                 authorizationState, submitted, calls, selection, transfer, codec, deposit>>

\* ------------------------------------------- requests sent to the facilitator
\* The requirements a caller of the facilitator sends: those the proxy builds.
DirectRequirements ==
  {createRequirementForNetwork(e, FacilitatorNetworkMetadata("arc-testnet")) :
     e \in Endpoints}

\* POST /verify or /settle by a caller other than the proxy; callers send in
\* the order of their numbers.
DirectSend(d, kind, paymentPayload, requirements) ==
  /\ fac[d].pc = "idle"
  /\ \A e \in DirectRequests : e < d => fac[e].pc # "idle"
  /\ fac' = [fac EXCEPT ![d] = FacRequest(kind, paymentPayload, requirements)]
  /\ UNCHANGED <<now, pendingNonces, generated, facilitatorNetworkCache, preq,
                 authorizationState, submitted, calls, selection, transfer, codec, deposit>>

\* ------------------------------------------------------------ specification
\* The gateway: clients call the proxy, the proxy calls the facilitator.
Next ==
  \/ Tick
  \/ \E p \in ProxyRequests, e \in Endpoints, h \in ClientHeaders : ProxyReceive(p, e, h)
  \/ \E p \in ProxyRequests : ProxyRespond(p)
  \/ \E p \in ProxyRequests, nets \in {FacilitatorNetworks, {}} : ProxyRespondLoading(p, nets)
  \/ \E p \in ProxyRequests : ProxyRespondLoadFailed(p)
  \/ \E p \in ProxyRequests : ProxyVerifyResponse(p)
  \/ \E p \in ProxyRequests : ProxySettleResponse(p)
  \/ \E c \in ProxyRequests : FacReceive(c)
  \/ \E c \in ProxyRequests : FacRead(c)
  \/ \E c \in ProxyRequests : FacDecide(c)
  \/ \E c \in ProxyRequests : FacSettleRespond(c)
  \/ \E c \in ProxyRequests : FacSettleNoData(c)
  \/ \E i \in 1..Len(submitted) : Mine(i)

Spec == Init /\ [][Next]_vars

\* The facilitator alone, called concurrently by NumDirectRequests callers.
NextFacilitator ==
  \/ Tick
  \/ \E d \in DirectRequests, k \in {"verify", "settle"}, pl \in ClientPayloads,
        rq \in DirectRequirements : DirectSend(d, k, pl, rq)
  \/ \E c \in DirectRequests : FacReceive(c)
  \/ \E c \in DirectRequests : FacRead(c)
  \/ \E c \in DirectRequests : FacDecide(c)
  \/ \E c \in DirectRequests : FacSettleRespond(c)
  \/ \E c \in DirectRequests : FacSettleNoData(c)
  \/ \E i \in 1..Len(submitted) : Mine(i)

SpecFacilitator == Init /\ [][NextFacilitator]_vars

\* --------------------------------------------------- one request, any body
\* The payer's authorization of price "1" for the arc-testnet offer, and the
\* ways a payload can depart from it.
GoodPayload == SignedPayload("arc-testnet", Payer, WalletArc, "1", 0, MaxTime, 1, Payer)

TamperedSignatures ==
  {[GoodPayload EXCEPT !.payload.v = 28], [GoodPayload EXCEPT !.payload.v = 0],
   [GoodPayload EXCEPT !.payload.s = "high"], [GoodPayload EXCEPT !.payload.r = "zero"]}

VerifyPayloads ==
  {GoodPayload,
   SignedPayload("arc-testnet", Payer, WalletArc, "2", 0, MaxTime, 1, Payer),
   SignedPayload("arc-testnet", Payer, WalletArc, "01", 0, MaxTime, 1, Payer),
   SignedPayload("arc-testnet", Payer, WalletArc, "1", 1, MaxTime, 1, Payer),
   SignedPayload("arc-testnet", Payer, WalletArc, "1", 0, MaxTime, 1, Mallory),
   SignedPayload("arc-testnet", getAddress(Payer), getAddress(WalletArc), "1", 0,
                 MaxTime, 1, Payer),
   SignedPayload("arc-testnet", Payer, Mallory, "1", 0, MaxTime, 1, Payer),
   SignedPayload("base-sepolia", Payer, WalletBase, "1", 0, MaxTime, 1, Payer),
   [GoodPayload EXCEPT !.network = "base-sepolia"],
   [GoodPayload EXCEPT !.scheme = "upto"],
   [GoodPayload EXCEPT !.payload.value = "2"],
   [GoodPayload EXCEPT !.payload.from = Mallory]}
  \cup TamperedSignatures

\* The requirement the proxy builds for endpoint A on arc-testnet, and the
\* ways a requirement can depart from it.
GoodRequirements ==
  createRequirementForNetwork(EndpointA, FacilitatorNetworkMetadata("arc-testnet"))

VerifyRequirements ==
  DirectRequirements \cup
  {createRequirementForNetwork(EndpointA, FacilitatorNetworkMetadata("base-sepolia")),
   [GoodRequirements EXCEPT !.token = TokenArc],
   [GoodRequirements EXCEPT !.token = TokenBase],
   [GoodRequirements EXCEPT !.recipient = Mallory],
   [GoodRequirements EXCEPT !.amount = "0"],
   [GoodRequirements EXCEPT !.amount = "01"],
   [GoodRequirements EXCEPT !.amount = "abc"],
   [GoodRequirements EXCEPT !.scheme = "upto"],
   [GoodRequirements EXCEPT !.network = "unknown-net"]}

\* transferWithAuthorization sent to the token contract by someone other
\* than the facilitator: the authorization is used from then on.
ChainUse(token, from, nonce) ==
  /\ <<token, from, nonce>> \notin authorizationState
  /\ authorizationState' = authorizationState \cup {<<token, from, nonce>>}
  /\ UNCHANGED <<now, pendingNonces, generated, facilitatorNetworkCache, preq, fac,
                 submitted, calls, selection, transfer, codec, deposit>>

FirstDirect == NumProxyRequests + 1

\* POST /verify or /settle with a body that lacks paymentPayload,
\* paymentRequirements or both.
DirectSendPartial(d, kind, hasPayload, paymentPayload, hasRequirements, requirements) ==
  /\ fac[d].pc = "idle"
  /\ \A e \in DirectRequests : e < d => fac[e].pc # "idle"
  /\ ~(hasPayload /\ hasRequirements)
  /\ fac' = [fac EXCEPT ![d] =
       [FacIdle EXCEPT !.pc = "sent", !.kind = kind,
          !.hasPayload = hasPayload,
          !.paymentPayload = IF hasPayload THEN paymentPayload ELSE EmptyPayload,
          !.hasRequirements = hasRequirements,
          !.requirements = IF hasRequirements THEN requirements ELSE EmptyRequirements]]
  /\ UNCHANGED <<now, pendingNonces, generated, facilitatorNetworkCache, preq,
                 authorizationState, submitted, calls, selection, transfer, codec, deposit>>

NextVerify ==
  \/ Tick
  \/ \E k \in {"verify", "settle"}, hp, hr \in BOOLEAN, rq \in VerifyRequirements :
        DirectSendPartial(FirstDirect, k, hp, GoodPayload, hr, rq)
  \/ \E k \in {"verify", "settle"}, pl \in VerifyPayloads, rq \in VerifyRequirements :
        DirectSend(FirstDirect, k, pl, rq)
  \/ FacReceive(FirstDirect)
  \/ FacRead(FirstDirect)
  \/ FacDecide(FirstDirect)
  \/ FacSettleRespond(FirstDirect)
  \/ FacSettleNoData(FirstDirect)
  \/ \E i \in 1..Len(submitted) : Mine(i)
  \/ ChainUse(TokenArc, Payer, 1)

SpecVerify == Init /\ [][NextVerify]_vars

\* ------------------------------------------- one paying client, any payload
\* A client asks the proxy for an offer and pays with any header.
PaymentHeaders == {NoHeader, Garbage} \cup {HeaderOf(pl) : pl \in VerifyPayloads}

NextPayment ==
  \/ Tick
  \/ \E p \in 1..2, e \in Endpoints, h \in PaymentHeaders : ProxyReceive(p, e, h)
  \/ \E p \in 1..2 : ProxyRespond(p)
  \/ \E p \in 1..2, nets \in {FacilitatorNetworks, {}} : ProxyRespondLoading(p, nets)
  \/ \E p \in 1..2 : ProxyRespondLoadFailed(p)
  \/ \E p \in 1..2 : ProxyVerifyResponse(p)
  \/ \E p \in 1..2 : ProxySettleResponse(p)
  \/ \E c \in 1..2 : FacReceive(c)
  \/ \E c \in 1..2 : FacRead(c)
  \/ \E c \in 1..2 : FacDecide(c)
  \/ \E c \in 1..2 : FacSettleRespond(c)
  \/ \E c \in 1..2 : FacSettleNoData(c)
  \/ \E i \in 1..Len(submitted) : Mine(i)
  \/ ChainUse(TokenArc, Payer, 1)

SpecPayment == Init /\ [][NextPayment]_vars

\* ------------------------------------------------------ the registry alone
\* issueNonce with a nonce generateNonce() has not produced before.
RegistryIssue(endpoint) ==
  /\ Len(calls) < MaxCalls
  /\ generated < MaxNonce
  /\ generated' = generated + 1
  /\ pendingNonces' = issueNonce(pendingNonces, endpoint, generated + 1, now)
  /\ calls' = Append(calls, [op |-> "issue", endpoint |-> endpoint,
                             nonce |-> generated + 1, at |-> now, result |-> TRUE,
                             before |-> pendingNonces,
                             after |-> issueNonce(pendingNonces, endpoint,
                                                  generated + 1, now)])
  /\ UNCHANGED <<now, facilitatorNetworkCache, preq, fac, authorizationState, submitted,
                 selection, transfer, codec, deposit>>

\* consumeNonce for any endpoint and nonce.
RegistryConsume(endpoint, nonce) ==
  /\ Len(calls) < MaxCalls
  /\ pendingNonces' = consumeNonce(pendingNonces, endpoint, nonce, now)
  /\ calls' = Append(calls, [op |-> "consume", endpoint |-> endpoint, nonce |-> nonce,
                             at |-> now,
                             result |-> consumeNonceResult(pendingNonces, endpoint,
                                                           nonce, now),
                             before |-> pendingNonces,
                             after |-> consumeNonce(pendingNonces, endpoint, nonce, now)])
  /\ UNCHANGED <<now, generated, facilitatorNetworkCache, preq, fac, authorizationState,
                 submitted, selection, transfer, codec, deposit>>

NextRegistry ==
  \/ Tick
  \/ \E e \in Endpoints : RegistryIssue(e)
  \/ \E e \in Endpoints, n \in Nonces : RegistryConsume(e, n)

SpecRegistry == Init /\ [][NextRegistry]_vars

\* ------------------------------------------------ funding source selection
\* The wallets of a wallet set and the amounts tried: every small amount,
\* and the amounts of the documented scenarios.
MaxWallets == 3
MaxSmall == 3

Amounts == (0..MaxSmall) \cup {300000, 500000, 700000}
RequestedAmounts == (0..(2 * MaxSmall + 1)) \cup {1000000}

\* The TokenBalance[] queryUserBalances returns: one entry per wallet, with a
\* non-negative amount in base units.
BalanceLists ==
  UNION {{[i \in 1..n |-> [walletId |-> i, amount |-> a[i]]] : a \in [1..n -> Amounts]} :
           n \in 0..MaxWallets}

\* The place Array.prototype.sort gives b among entries already in order:
\* before the first entry of a smaller amount (the sort is stable).
RECURSIVE InsertByAmount(_, _)
InsertByAmount(sorted, b) ==
  IF sorted = <<>> THEN <<b>>
  ELSE IF b.amount > Head(sorted).amount THEN <<b>> \o sorted
  ELSE <<Head(sorted)>> \o InsertByAmount(Tail(sorted), b)

\* A selection that takes the balances in the order they came in.
sortedBalancesUnsorted(balances) == balances

\* [...balances].sort(...): descending by amount.
RECURSIVE sortedBalances(_)
sortedBalances(balances) ==
  IF balances = <<>> THEN <<>>
  ELSE InsertByAmount(sortedBalances(SubSeq(balances, 1, Len(balances) - 1)),
                      balances[Len(balances)])

\* A draw that always takes the whole balance.
amountToUseWhole(balance, remaining) == balance.amount

\* amountToUse = balance.amount > remaining ? remaining : balance.amount
amountToUse(balance, remaining) ==
  IF balance.amount > remaining THEN remaining ELSE balance.amount

\* The for loop over sortedBalances from entry i on.
RECURSIVE SelectLoop(_, _, _, _)
SelectLoop(sorted, i, remaining, selected) ==
  IF i > Len(sorted) \/ remaining <= 0
    THEN [selected |-> selected, remaining |-> remaining]
  ELSE IF sorted[i].amount > 0
    THEN SelectLoop(sorted, i + 1, remaining - amountToUse(sorted[i], remaining),
                    Append(selected,
                           [sorted[i] EXCEPT !.amount = amountToUse(sorted[i], remaining)]))
  ELSE SelectLoop(sorted, i + 1, remaining, selected)

\* An error message that prints what is missing in place of what is there.
InsufficientBalanceMissing(requestedAmount, remaining) ==
  [need |-> requestedAmount, have |-> remaining]

\* `Insufficient balance. Need ${requestedAmount}, have ${requestedAmount - remaining}`:
\* the two numbers the message prints.
InsufficientBalance(requestedAmount, remaining) ==
  [need |-> requestedAmount, have |-> requestedAmount - remaining]

selectTokensForTransfer(balances, requestedAmount) ==
  LET out == SelectLoop(sortedBalances(balances), 1, requestedAmount, <<>>)
  IN IF out.remaining > 0
       THEN [threw |-> TRUE, selected |-> <<>>,
             error |-> InsufficientBalance(requestedAmount, out.remaining)]
     ELSE [threw |-> FALSE, selected |-> out.selected, error |-> NoSelection.error]

\* A transfer route has queried the balances and is about to select.
InitSelect ==
  /\ now = 0
  /\ pendingNonces = <<>>
  /\ generated = 0
  /\ facilitatorNetworkCache = NotLoaded
  /\ preq = [p \in ProxyRequests |-> ProxyIdle]
  /\ fac = [c \in Callers |-> FacIdle]
  /\ authorizationState = {}
  /\ submitted = <<>>
  /\ calls = <<>>
  /\ selection \in {[NoSelection EXCEPT !.pc = "called", !.balances = b,
                                        !.requestedAmount = r] :
                      b \in BalanceLists, r \in RequestedAmounts}
  /\ transfer = NoTransfer
  /\ codec = NoCodec
  /\ deposit = NoDeposit

\* selectTokensForTransfer(balances, requestedAmount) returns or throws.
SelectTokens ==
  LET out == selectTokensForTransfer(selection.balances, selection.requestedAmount)
  IN
  /\ selection.pc = "called"
  /\ selection' = [selection EXCEPT !.pc = IF out.threw THEN "threw" ELSE "returned",
                                    !.selected = out.selected,
                                    !.error = out.error]
  /\ UNCHANGED <<now, pendingNonces, generated, facilitatorNetworkCache, preq, fac,
                 authorizationState, submitted, calls, transfer, codec, deposit>>

NextSelect == SelectTokens

SpecSelect == InitSelect /\ [][NextSelect]_vars

\* ------------------------------------------------- outcomes of verification
\* verifyAuthorization returned without throwing: /verify answered
\* valid:true, or /settle went on to submit the transfer.
Verified(f) ==
  \/ f.kind = "verify" /\ f.pc = "done" /\ f.status = 200 /\ f.ok
  \/ f.kind = "settle" /\ f.tx # 0

\* verifyAuthorization threw error.
Rejected(f, error) ==
  /\ f.pc = "done" /\ ~f.ok /\ f.tx = 0 /\ f.error = error
  /\ f.status = IF f.kind = "verify" THEN 200 ELSE 400

\* ------------------------------------------------------------ nonce registry
ConsumeCalls == {i \in 1..Len(calls) : calls[i].op = "consume"}
IssueCalls == {i \in 1..Len(calls) : calls[i].op = "issue"}

SameNonce(i, j) ==
  calls[i].endpoint = calls[j].endpoint /\ calls[i].nonce = calls[j].nonce

\* C1: a nonce is issued once for an endpoint, and of all the consume calls
\* for that (endpoint, nonce) at most one returns true: the successful one
\* deletes the record, and every later one returns false.
C1_ConsumedAtMostOnce ==
  /\ \A i, j \in IssueCalls : i # j => calls[i].nonce # calls[j].nonce
  /\ \A i, j \in ConsumeCalls :
       (i < j /\ SameNonce(i, j) /\ calls[i].result) =>
         /\ buildNonceKey(calls[i].endpoint, calls[i].nonce) \notin DOMAIN calls[i].after
         /\ ~calls[j].result

\* Issue once, consume twice: success, then failure.
C1_Witness ==
  \E h \in IssueCalls, i, j \in ConsumeCalls :
    /\ h < i /\ i < j /\ SameNonce(h, i) /\ SameNonce(i, j)
    /\ calls[i].result /\ ~calls[j].result

\* A record is unexpired at a second before its expiresAt.
Unexpired(pending, k, at) == k \in DOMAIN pending /\ pending[k] > at

\* C8: consume(routeKey, nonce) at time now returns true if and only if the
\* record of (method, route, nonce) is present and unexpired; a call that
\* returns true deletes the record, and a call that returns false removes no
\* unexpired record.
C8_ConsumeContract ==
  \A i \in ConsumeCalls :
    LET c == calls[i]
        key == buildNonceKey(c.endpoint, c.nonce)
    IN /\ c.result <=> Unexpired(c.before, key, c.at)
       /\ c.result => key \notin DOMAIN c.after
       /\ ~c.result =>
            \A k \in DOMAIN c.before :
              Unexpired(c.before, k, c.at) =>
                k \in DOMAIN c.after /\ c.after[k] = c.before[k]
       /\ \A k \in DOMAIN c.after : k \in DOMAIN c.before /\ c.after[k] = c.before[k]

\* A consume in the second its record expires returns false while another,
\* unexpired record stays.
C8_Witness ==
  \E i \in ConsumeCalls :
    LET c == calls[i]
        key == buildNonceKey(c.endpoint, c.nonce)
    IN /\ ~c.result
       /\ key \in DOMAIN c.before /\ c.before[key] = c.at
       /\ \E k \in DOMAIN c.before : k # key /\ Unexpired(c.after, k, c.at)

\* -------------------------------------------------------------------- proxy
\* Request p has been received and its header decoded to a payload.
Decoded(p) == preq[p].pc # "idle" /\ decodePaymentHeader(preq[p].header).ok

\* Requests p and q carry the same nonce for the same priced endpoint.
SameOffer(p, q) ==
  /\ Decoded(p) /\ Decoded(q)
  /\ preq[p].endpoint = preq[q].endpoint
  /\ preq[p].header.payload.payload.nonce = preq[q].header.payload.payload.nonce

\* C3: of the requests that carry the same nonce for the same priced
\* endpoint, however their handlers interleave, at most one passes nonce
\* consumption and reaches the facilitator; every other one never calls the
\* facilitator and is answered 402.
C3_OneRequestPerNonce ==
  \A p, q \in ProxyRequests :
    (p # q /\ SameOffer(p, q) /\ preq[p].consumed) =>
      /\ ~preq[q].consumed
      /\ fac[q].pc = "idle"
      /\ ~preq[q].forwarded
      /\ preq[q].pc \in {"respond", "done"}
      /\ preq[q].pc = "done" => preq[q].status = 402

\* While one request is waiting for /verify, a second one with the same
\* nonce has been answered 402 with a new offer.
C3_Witness ==
  \E p, q \in ProxyRequests :
    /\ p # q /\ SameOffer(p, q)
    /\ preq[p].consumed /\ preq[p].pc = "verify" /\ fac[p].pc = "reading"
    /\ preq[q].pc = "done" /\ preq[q].status = 402 /\ preq[q].offer # 0

\* The payload request p carries, and the requirement the proxy builds for it.
PayloadOf(p) == decodePaymentHeader(preq[p].header).payload

RequirementOf(p) ==
  createRequirementForNetwork(preq[p].endpoint,
                              FacilitatorNetworkMetadata(PayloadOf(p).network))

NonceKeyOf(p) == buildNonceKey(preq[p].endpoint, PayloadOf(p).payload.nonce)

FieldReasons ==
  {"Payment payload network mismatch", "Payment amount mismatch",
   "Payment recipient mismatch"}

InvoiceExpired == "Invoice expired - request a new payment"

\* The checks of one facilitator call, in the order they are evaluated.
CheckOrder == <<"fields", "signature", "replay", "window">>

\* C9, as the code has it: for a payment whose header decodes the checks run
\* in the order nonce consume, field match, signature recovery, on-chain
\* replay state, validity window. Each is a hard failure: the reason reported
\* is that of the earliest failing check in this order, and no later check is
\* evaluated once one has failed.
C9_CheckOrder ==
  \A p \in ProxyRequests :
    LET r == preq[p]
        f == fac[p]
        pl == PayloadOf(p)
        req == RequirementOf(p)
        ctx == networkContexts(req.network)
        n == Len(f.steps)
        failed == f.pc = "done" /\ ~Verified(f)
    IN Decoded(p) =>
         /\ ~r.consumed =>
              /\ r.message = InvoiceExpired /\ f.pc = "idle" /\ f.steps = <<>>
              /\ r.pc = "done" => r.status # 200 /\ ~r.forwarded
         /\ f.pc # "idle" => r.consumed /\ f.paymentPayload = pl /\ f.requirements = req
         /\ n <= 4 /\ f.steps = SubSeq(CheckOrder, 1, n)
         /\ n >= 2 => FieldMismatch(pl, req) = Null
         /\ n >= 3 => SignatureMismatch(pl, req, ctx) = Null /\ f.readDone
         /\ n >= 4 => ~f.alreadyUsed /\ f.checkedAt >= 0
         /\ n < 3 => ~f.readDone
         /\ n < 4 => f.checkedAt = -1
         /\ (failed /\ n = 1) => f.error = FieldMismatch(pl, req) /\ f.error # Null
         /\ (failed /\ n = 2) => f.error = SignatureMismatch(pl, req, ctx) /\ f.error # Null
         /\ (failed /\ n = 3) => f.error = ReplayCheck(f.alreadyUsed) /\ f.alreadyUsed
         /\ (failed /\ n = 4) =>
              /\ f.error = ValidityWindow(toAuthorization(pl), f.checkedAt)
              /\ f.error # Null
         /\ (failed /\ r.pc = "done") => r.status = 402 /\ r.error = f.error

\* A payment with a wrong amount and a forged signature, presented under a
\* nonce the registry does not hold, is refused for the nonce.
C9_Witness ==
  \E p \in ProxyRequests :
    /\ Decoded(p) /\ preq[p].pc = "done" /\ preq[p].status = 402
    /\ ~preq[p].consumed /\ preq[p].error = InvoiceExpired
    /\ FieldMismatch(PayloadOf(p), RequirementOf(p)) = "Payment amount mismatch"
    /\ PayloadOf(p).payload.key = Mallory

\* C9, as stated: the field match is the first check, so a payment whose
\* fields do not match is refused for the mismatch and its nonce is not consumed.
C9_FieldMatchFirst ==
  \A p \in ProxyRequests :
    (Decoded(p) /\ preq[p].pc = "done" /\ preq[p].status = 402
       /\ PayloadOf(p).network \in facilitatorNetworkCache.networks
       /\ FieldMismatch(PayloadOf(p), RequirementOf(p)) # Null) =>
      /\ preq[p].error = FieldMismatch(PayloadOf(p), RequirementOf(p))
      /\ ~preq[p].consumed

\* C10, as the code has it: the nonce is consumed before the facilitator
\* matches the fields. A payment rejected for a field mismatch has had its
\* nonce record deleted, and no other request presenting that nonce for the
\* endpoint passes consumption.
C10_ConsumedBeforeFieldMatch ==
  \A p \in ProxyRequests :
    /\ fac[p].pc # "idle" => preq[p].consumed
    /\ (Decoded(p) /\ preq[p].consumed) => NonceKeyOf(p) \notin DOMAIN pendingNonces
    /\ (Decoded(p) /\ preq[p].pc = "done" /\ preq[p].error \in FieldReasons) =>
         /\ preq[p].consumed
         /\ \A q \in ProxyRequests : (q # p /\ SameOffer(p, q)) => ~preq[q].consumed

\* A payment of the wrong amount is rejected, and the corrected payment
\* presenting the same nonce is told that the invoice expired.
C10_Witness ==
  \E p, q \in ProxyRequests :
    /\ p # q /\ SameOffer(p, q)
    /\ preq[p].pc = "done" /\ preq[p].error = "Payment amount mismatch"
    /\ FieldMismatch(PayloadOf(q), RequirementOf(q)) = Null
    /\ preq[q].pc = "done" /\ preq[q].status = 402 /\ preq[q].error = InvoiceExpired

\* C10, as stated: a payment rejected for a field mismatch has not had its
\* nonce consumed.
C10_MismatchKeepsNonce ==
  \A p \in ProxyRequests :
    (Decoded(p) /\ preq[p].pc = "done" /\ preq[p].error \in FieldReasons) =>
      ~preq[p].consumed

\* -------------------------------------------------------------- facilitator
\* C2: whatever the sequence or interleaving of /verify and /settle requests,
\* a transferWithAuthorization call is submitted at most once for one
\* (from, nonce) of a token.
C2_SubmittedAtMostOnce ==
  \A i, j \in 1..Len(submitted) :
    i # j => AuthorizationKey(submitted[i].token, submitted[i].authorization)
               # AuthorizationKey(submitted[j].token, submitted[j].authorization)

\* C4: an authorization whose validity window is checked at a second nowTs
\* with nowTs <= validAfter or nowTs >= validBefore is rejected, at either
\* boundary too; verification succeeds only with validAfter < nowTs < validBefore.
C4_ValidityWindow ==
  \A c \in Callers :
    LET f == fac[c]
        auth == toAuthorization(f.paymentPayload)
    IN /\ Verified(f) => auth.validAfter < f.checkedAt /\ f.checkedAt < auth.validBefore
       /\ (f.pc = "done" /\ f.checkedAt >= 0 /\ f.checkedAt <= auth.validAfter)
            => Rejected(f, "Authorization not yet valid")
       /\ (f.pc = "done" /\ f.checkedAt > auth.validAfter
             /\ f.checkedAt >= auth.validBefore)
            => Rejected(f, "Authorization expired")

\* A correctly signed authorization is verified inside its window, and
\* rejected at the second it becomes valid and at the second it expires.
C4_Witness ==
  /\ fac[FirstDirect].pc = "done"
  /\ fac[FirstDirect].paymentPayload = GoodPayload
  /\ fac[FirstDirect].checkedAt = MaxTime
  /\ Rejected(fac[FirstDirect], "Authorization expired")

\* C5: verification succeeds only if the signature recovers, over the digest
\* recomputed from the authorization and the requirement's token domain, to
\* the address authorization.from.
C5_SignerIsFrom ==
  \A c \in Callers :
    LET f == fac[c]
        auth == toAuthorization(f.paymentPayload)
        sig == toSignature(f.paymentPayload)
        ctx == networkContexts(f.requirements.network)
        digest == TransferDigest(auth, f.requirements.token, ctx.usdcName,
                                 ctx.usdcVersion, ctx.chainId)
    IN Verified(f) =>
         /\ sig.v \in {27, 28} /\ sig.s \notin {"high", "zero"} /\ sig.r # "zero"
         /\ sig.msg = digest
         /\ toLowerCase(sig.key) = toLowerCase(auth.from)
         /\ toLowerCase(recoverAddress(digest, sig)) = toLowerCase(auth.from)

\* The payer's own signature verifies; from is then the signer up to case.
C5_Witness ==
  /\ Verified(fac[FirstDirect])
  /\ fac[FirstDirect].kind = "verify"
  /\ fac[FirstDirect].paymentPayload.payload.key = Payer
  /\ fac[FirstDirect].paymentPayload.payload.from = getAddress(Payer)

\* C6: verification succeeds only if the payload's scheme and network are the
\* requirement's, its recipient is the requirement's up to case, its value is
\* the required amount exactly (a greater value is rejected), and the token
\* it authorizes is the requirement's up to case.
C6_FieldsMatch ==
  \A c \in Callers :
    LET f == fac[c]
        pl == f.paymentPayload
        req == f.requirements
    IN Verified(f) =>
         /\ pl.scheme = req.scheme /\ pl.scheme = "exact"
         /\ pl.network = req.network
         /\ toLowerCase(pl.payload.to) = toLowerCase(req.recipient)
         /\ pl.payload.value = req.amount
         /\ ~(BigInt(pl.payload.value) > BigInt(req.amount))
         /\ pl.payload.msg.domain.verifyingContract = toLowerCase(req.token)
         /\ toLowerCase(req.token) = toLowerCase(networkContexts(pl.network).usdcAddress)

\* A payload whose recipient and token differ from the requirement's in case
\* only is verified.
C6_Witness ==
  /\ Verified(fac[FirstDirect])
  /\ fac[FirstDirect].paymentPayload.payload.to = WalletArc
  /\ fac[FirstDirect].requirements.recipient = getAddress(WalletArc)
  /\ fac[FirstDirect].requirements.token = TokenArc

\* C7: when readContract authorizationState reports the authorization used,
\* verification fails as a replay and /settle submits no transaction.
C7_ReplayRejected ==
  \A c \in Callers :
    LET f == fac[c]
    IN (f.readDone /\ f.alreadyUsed) =>
         /\ f.pc \in {"answered", "done"}
         /\ f.tx = 0
         /\ f.pc = "done" => Rejected(f, "Authorization already used")
         /\ \A i \in 1..Len(submitted) : submitted[i].by # c

\* A /settle request whose read finds the authorization already settled.
C7_Witness ==
  \E c \in Callers :
    /\ fac[c].kind = "settle" /\ fac[c].pc = "done"
    /\ fac[c].readDone /\ fac[c].alreadyUsed
    /\ Len(submitted) = 1 /\ submitted[1].state = "mined"

NonceGone(paymentPayload) ==
  /\ paymentPayload.payload.nonce \in 1..generated
  /\ \A e \in Endpoints :
       buildNonceKey(e, paymentPayload.payload.nonce) \notin DOMAIN pendingNonces

WellFormed(f) ==
  /\ f.hasRequirements
  /\ f.requirements.scheme = "exact"
  /\ f.requirements.network \in FacilitatorNetworks
  /\ toLowerCase(f.requirements.token) =
       toLowerCase(networkContexts(f.requirements.network).usdcAddress)
  /\ toLowerCase(f.requirements.recipient) =
       toLowerCase(networkContexts(f.requirements.network).walletAddress)
  /\ IsDecimal(f.requirements.amount) /\ BigInt(f.requirements.amount) > 0

\* The reasons verifyAuthorization gives for a failed verification.
VerificationFailures ==
  FieldReasons \cup
  {"Invalid EIP-3009 signature", "Authorization already used",
   "Authorization not yet valid", "Authorization expired"}

\* C12: /verify answers HTTP 200 to every well-formed request, with
\* valid:true when verification passes and with valid:false and an error
\* when the payload is missing or verification fails (mismatch, signature,
\* replay, window); it answers HTTP 400 only to malformed requests.
C12_VerifyStatus ==
  \A c \in Callers :
    LET f == fac[c]
    IN (f.kind = "verify" /\ f.pc = "done") =>
         /\ f.status \in {200, 400}
         /\ f.status = 400 => ~WellFormed(f) /\ ~f.ok /\ f.error # ""
         /\ WellFormed(f) =>
              /\ f.status = 200
              /\ ~f.ok => f.error # ""
              /\ ~f.hasPayload => ~f.ok /\ f.error = "Missing payment payload"
              /\ (f.hasPayload /\ ~f.ok) => f.error \in VerificationFailures
              /\ f.ok <=>
                   /\ f.hasPayload
                   /\ BeforeRead(f.paymentPayload, f.requirements,
                                 networkContexts(f.requirements.network)) = Null
                   /\ f.readDone /\ ~f.alreadyUsed
                   /\ ValidityWindow(toAuthorization(f.paymentPayload), f.checkedAt) = Null
         /\ f.error \in VerificationFailures \cup {"Missing payment payload"}
              => f.status = 200 /\ ~f.ok

\* /verify has answered 200 valid:false to a replayed authorization.
C12_Witness ==
  /\ fac[FirstDirect].kind = "verify" /\ fac[FirstDirect].pc = "done"
  /\ WellFormed(fac[FirstDirect])
  /\ fac[FirstDirect].status = 200 /\ ~fac[FirstDirect].ok
  /\ fac[FirstDirect].error = "Authorization already used"

\* ------------------------------------------------------ /settle's submissions
\* The transferWithAuthorization calls that the request of caller c handed
\* to Circle.
SubmittedBy(c) == {i \in 1..Len(submitted) : submitted[i].by = c}

\* The request of f passes every check of its route: acceptable requirements,
\* a payload, and verifyAuthorization returning without a throw.
PassesVerification(f) ==
  /\ WellFormed(f)
  /\ f.hasPayload
  /\ BeforeRead(f.paymentPayload, f.requirements,
                networkContexts(f.requirements.network)) = Null
  /\ f.readDone /\ ~f.alreadyUsed /\ f.checkedAt >= 0
  /\ ValidityWindow(toAuthorization(f.paymentPayload), f.checkedAt) = Null

\* C13: a /settle request hands exactly one transferWithAuthorization call
\* to Circle when verification passes, and none when the requirements are
\* invalid, the payload is missing or verification fails, which are answered
\* 400 with an error; whatever becomes of the transaction, the request
\* never submits a second one.
C13_SettleSubmitsOnce ==
  \A c \in Callers :
    LET f == fac[c]
    IN f.kind = "settle" =>
         /\ Cardinality(SubmittedBy(c)) <= 1
         /\ \A i \in SubmittedBy(c) :
              /\ f.tx = i
              /\ PassesVerification(f)
              /\ submitted[i].token = f.requirements.token
              /\ submitted[i].authorization = toAuthorization(f.paymentPayload)
         /\ f.pc \in {"submitted", "done"} =>
              (SubmittedBy(c) # {} <=> PassesVerification(f))
         /\ (f.pc = "done" /\ ~PassesVerification(f)) =>
              /\ f.status = 400 /\ ~f.ok /\ f.error # ""
              /\ SubmittedBy(c) = {}

\* A settlement whose transaction reverted on chain has been answered, and
\* its one submission is the only one.
C13_Witness ==
  /\ fac[FirstDirect].kind = "settle" /\ fac[FirstDirect].pc = "done"
  /\ fac[FirstDirect].state = "FAILED"
  /\ SubmittedBy(FirstDirect) = {1} /\ Len(submitted) = 1

\* ------------------------------------------------------ settlement's outcome
\* Circle's terminal transaction states, as waitForTransactionConfirmed
\* tells them apart.
TerminalSuccessStates == {"CONFIRMED", "COMPLETE", "CLEARED"}
TerminalFailureStates == {"FAILED", "DENIED", "CANCELLED"}

\* C14: once the transferWithAuthorization call is submitted, settlement
\* follows the transaction to a terminal state before it reports: success
\* only for a transaction seen in a terminal success state, failure for one
\* seen failed, denied or cancelled, and otherwise a timeout.
C14_ReportsTerminalState ==
  \A c \in Callers :
    LET f == fac[c]
    IN (f.kind = "settle" /\ f.pc = "done" /\ f.tx # 0 /\ f.status = 200) =>
         \/ f.ok /\ f.state \in TerminalSuccessStates
                 /\ submitted[f.tx].state = "mined"
         \/ ~f.ok /\ f.state \in TerminalFailureStates
                  /\ submitted[f.tx].state = "reverted"

\* --------------------------------------------------------------- forwarding
\* C15: a request for a priced endpoint is forwarded to the upstream only
\* after its payment header decoded, its nonce was consumed and /verify
\* answered valid:true; every other answered request was not forwarded and
\* got 402 or 503.
C15_ForwardedOnlyVerified ==
  \A p \in ProxyRequests :
    LET r == preq[p]
    IN /\ r.forwarded =>
            /\ r.pc = "done" /\ r.status = 200
            /\ Decoded(p) /\ r.consumed /\ r.verified
            /\ NonceKeyOf(p) \notin DOMAIN pendingNonces
            /\ fac[p].pc = "done"
            /\ fac[p].paymentPayload = PayloadOf(p)
            /\ ~r.endpoint.autoSettle => Verified(fac[p]) /\ fac[p].kind = "verify"
            /\ r.endpoint.autoSettle => fac[p].kind = "settle"
       /\ (r.pc = "done" /\ ~r.forwarded) => r.status \in {402, 503}
       /\ (r.pc = "done" /\ (~Decoded(p) \/ ~r.consumed \/ ~r.verified)) =>
            ~r.forwarded /\ r.status \in {402, 503}

\* A request for the endpoint without autoSettle was forwarded after /verify
\* answered valid:true for the payment it carried under the offered nonce.
C15_Witness ==
  \E p, q \in ProxyRequests :
    /\ preq[q].pc = "done" /\ preq[q].status = 402
    /\ preq[q].offer = PayloadOf(p).payload.nonce
    /\ preq[p].forwarded /\ ~preq[p].endpoint.autoSettle
    /\ Verified(fac[p]) /\ preq[p].settlement = "verified"

\* C16: with autoSettle enabled for its endpoint, a request is forwarded to
\* the upstream only if /settle reported the settlement successful; a
\* settlement reported with success false is never forwarded.
C16_ForwardedOnlySettled ==
  \A p \in ProxyRequests :
    (preq[p].forwarded /\ preq[p].endpoint.autoSettle) =>
      /\ fac[p].kind = "settle" /\ fac[p].pc = "done"
      /\ fac[p].status = 200 /\ fac[p].ok
      /\ preq[p].settlement = "completed"

\* ------------------------------------------------------------- 402 answers
\* The step answers request p with HTTP 402.
Answers402(p) == preq[p].pc # "done" /\ preq'[p].pc = "done" /\ preq'[p].status = 402

\* The messages respondWithPaymentRequired is called with.
OfferMessages == {"Payment Required", "Invalid payment payload", InvoiceExpired}

\* C17, as the code has it: a 402 written by respondWithPaymentRequired (no
\* payment header, an undecodable one, or a nonce that could not be
\* consumed) carries an accepts list with exactly one entry per network of
\* the facilitator's list, all with one nonce that was generated and
\* registered for this response; a 402 written by the handler's catch block
\* carries the thrown error and no accepts list or nonce.
C17_OfferPerNetwork ==
  [][\A p \in ProxyRequests :
       Answers402(p) =>
         LET r == preq'[p]
             key == buildNonceKey(r.endpoint, r.offer)
             networks == facilitatorNetworkCache'.networks
         IN IF preq[p].pc = "respond" /\ facilitatorNetworkCache'.loaded
              THEN /\ r.error \in OfferMessages
                   /\ networks # {}
                   /\ \A n \in networks :
                        Cardinality({e \in r.accepts : e.network = n}) = 1
                   /\ \A e \in r.accepts :
                        /\ e.network \in networks
                        /\ e.nonce = r.offer
                        /\ e.maxAmountRequired = r.endpoint.price
                   /\ r.offer = generated' /\ r.offer > generated
                   /\ \A q \in ProxyRequests \ {p} : preq[q].offer # r.offer
                   /\ key \notin DOMAIN pendingNonces
                   /\ key \in DOMAIN pendingNonces'
                   /\ pendingNonces'[key] = now + r.endpoint.maxTimeoutSeconds
            ELSE /\ r.accepts = {} /\ r.offer = 0
                 /\ r.error \notin OfferMessages
                 /\ UNCHANGED <<pendingNonces, generated>>]_vars

\* A request whose nonce could not be consumed has been answered 402 with an
\* offer for each of the facilitator's two networks under a second nonce.
C17_Witness ==
  \E p \in ProxyRequests :
    /\ preq[p].pc = "done" /\ preq[p].status = 402 /\ preq[p].error = InvoiceExpired
    /\ {e.network : e \in preq[p].accepts} = FacilitatorNetworks
    /\ Cardinality(preq[p].accepts) = 2
    /\ preq[p].offer = 2
    /\ buildNonceKey(preq[p].endpoint, 2) \in DOMAIN pendingNonces

\* C17, as stated: every 402 of the proxy carries an accepts list with one
\* entry per network, all with one nonce issued for the response.
C17_Every402HasOffer ==
  \A p \in ProxyRequests :
    (/\ preq[p].pc = "done" /\ preq[p].status = 402
     /\ facilitatorNetworkCache.loaded /\ facilitatorNetworkCache.networks # {}) =>
      /\ preq[p].offer # 0
      /\ \A n \in facilitatorNetworkCache.networks :
           Cardinality({e \in preq[p].accepts : e.network = n}) = 1
      /\ \A e \in preq[p].accepts : e.nonce = preq[p].offer

\* ------------------------------------------------ funding source selection
RECURSIVE SumAmounts(_)
SumAmounts(entries) ==
  IF entries = <<>> THEN 0 ELSE Head(entries).amount + SumAmounts(Tail(entries))

\* The selection call is over.
SelectionDone == selection.pc \in {"returned", "threw"}

\* C18: for every balance list and required amount, the selection returns
\* entries whose amounts sum exactly to the required amount whenever the
\* total balance is at least the required amount, and throws the
\* insufficient-balance error whenever it is not; it never returns a
\* selection summing to less than required.
C18_SelectionCoversRequired ==
  SelectionDone =>
    /\ SumAmounts(selection.balances) >= selection.requestedAmount =>
         /\ selection.pc = "returned"
         /\ SumAmounts(selection.selected) = selection.requestedAmount
    /\ SumAmounts(selection.balances) < selection.requestedAmount =>
         /\ selection.pc = "threw"
         /\ selection.selected = <<>>
    /\ selection.pc = "returned" =>
         ~(SumAmounts(selection.selected) < selection.requestedAmount)

\* Three wallets were drawn from, the last one in part, out of a total
\* greater than the required amount.
C18_Witness ==
  /\ selection.pc = "returned"
  /\ Len(selection.selected) = 3
  /\ SumAmounts(selection.balances) > selection.requestedAmount
  /\ selection.selected[3].amount
       < selection.balances[selection.selected[3].walletId].amount

\* The balance of the wallet a selected entry draws from.
BalanceOf(entry) == selection.balances[entry.walletId].amount

SelectedWallets == {selection.selected[i].walletId : i \in 1..Len(selection.selected)}

AmountsOf(entries) == [i \in 1..Len(entries) |-> entries[i].amount]

\* C19: a returned selection takes the balances in descending order of
\* amount, draws from each selected wallet a positive amount that is at most
\* the wallet's balance, and draws the whole balance from every selected
\* entry but possibly the last; for balances [700000, 500000] and required
\* 1000000 it is [700000, 300000].
C19_GreedyDescending ==
  selection.pc = "returned" =>
    LET sel == selection.selected
        n == Len(sel)
    IN /\ \A i \in 1..n :
            /\ sel[i].walletId \in 1..Len(selection.balances)
            /\ sel[i].amount > 0
            /\ sel[i].amount <= BalanceOf(sel[i])
            /\ i < n => sel[i].amount = BalanceOf(sel[i])
       /\ \A i, j \in 1..n :
            i < j => /\ sel[i].walletId # sel[j].walletId
                     /\ BalanceOf(sel[i]) >= BalanceOf(sel[j])
       /\ \A i \in 1..n, w \in 1..Len(selection.balances) :
            w \notin SelectedWallets =>
              selection.balances[w].amount <= BalanceOf(sel[i])
       /\ (AmountsOf(selection.balances) \in {<<700000, 500000>>, <<500000, 700000>>}
             /\ selection.requestedAmount = 1000000)
            => AmountsOf(sel) = <<700000, 300000>>

\* Balances [500000, 700000], required 1000000: the second wallet is taken
\* whole, then 300000 of the first.
C19_Witness ==
  /\ selection.pc = "returned"
  /\ AmountsOf(selection.balances) = <<500000, 700000>>
  /\ selection.requestedAmount = 1000000
  /\ selection.selected = <<[walletId |-> 2, amount |-> 700000],
                            [walletId |-> 1, amount |-> 300000]>>

\* The numbers the thrown error's message prints.
NamedInError == {selection.error.need, selection.error.have}

NumTransfers == 2

\* depositToGateway: const maxRetries = 3.
maxRetries == 3

\* BigInt(Math.floor(parseFloat(amount) * 1_000_000)) on the amounts of the model.
TransferAmounts == {"1", "0.0005", "0.0010005"}

amountToBaseUnits(amount) ==
  CASE amount = "1" -> 1000000
    [] amount = "0.0005" -> 500
    [] amount = "0.0010005" -> 1000
    [] OTHER -> 0

\* Fee buffer: 0.1% of amount, in bigint division.
feeBuffer(amountBigInt) == (amountBigInt * 1) \div 1000

\* What queryUserBalances can return: one entry per wallet that holds USDC.
Wallets(amounts) ==
  [i \in 1..Len(amounts) |-> [walletId |-> i, amount |-> amounts[i]]]

TransferBalances ==
  {Wallets(a) : a \in {<<>>, <<1001000>>, <<2000000>>, <<300000>>, <<700000, 500000>>,
                       <<500000, 400000, 300000>>, <<400, 300, 300>>}}

\* Circle transaction states waitForTransactionConfirmed can end on; "timeout"
\* stands for eighty polls without a terminal state.
ConfirmedStates == {"CONFIRMED", "COMPLETE", "CLEARED"}
FailedStates == {"FAILED", "DENIED", "CANCELLED"}
WaitOutcomes == ConfirmedStates \cup FailedStates \cup {"timeout"}

\* The message of the error waitForTransactionConfirmed throws.
waitForTransactionConfirmed(state) ==
  CASE state \in ConfirmedStates -> Null
    [] state = "FAILED" -> "failed with state=FAILED"
    [] state = "DENIED" -> "failed with state=DENIED"
    [] state = "CANCELLED" -> "failed with state=CANCELLED"
    [] OTHER -> "not confirmed within timeout window"

\* The catch of a retry loop: TRUE when the error is thrown on.
ThrowsOnLastAttemptOnly(msg, attempt) == attempt = maxRetries

ThrowsOnFailedOnly(msg, attempt) == msg # "failed with state=FAILED"

ThrowsOn(msg, attempt) ==
  msg # "failed with state=FAILED" \/ attempt = maxRetries

\* crypto.randomBytes(32): the n-th draw; no two draws are equal.
randomBytes(n) == n + 1

\* createBurnIntent: the fields of the intent that depend on the request.
createBurnIntentSaltOfDepositor(sourceDepositor, destinationRecipient, value, fee, n) ==
  [sourceDepositor |-> sourceDepositor, destinationRecipient |-> destinationRecipient,
   value |-> value, maxFee |-> fee, salt |-> sourceDepositor]

createBurnIntent(sourceDepositor, destinationRecipient, value, fee, n) ==
  [sourceDepositor |-> sourceDepositor, destinationRecipient |-> destinationRecipient,
   value |-> value, maxFee |-> fee, salt |-> randomBytes(n)]

\* The value the route passes to createBurnIntent for a selected token.
burnValueOfToken(amountBigInt, fee, token) == token.amount - fee

burnValue(amountBigInt, fee, token) == amountBigInt

\* submitBurnIntentsToGateway: the JSON body of an ok response, normalized
\* to an array. A body is an array, an object with a transfers array, one
\* object, or null.
GatewayBodies(n) ==
  {[shape |-> sh, items |-> k] : sh \in {"array", "transfers"}, k \in 0..n}
  \cup {[shape |-> "object", items |-> 1], [shape |-> "null", items |-> 0]}

normalizeItems(body) ==
  [i \in 1..body.items |-> [attestation |-> i, signature |-> i]]

Event(step, token) == [step |-> step, token |-> token]

\* An error response: res.status(status).json({error}) and the handler returns.
RespondErrorAndGoOn(t, status, error) ==
  [t EXCEPT !.status = status, !.error = error]

RespondError(t, status, error) ==
  [t EXCEPT !.pc = "failed", !.status = status, !.error = error]

\* res.status(200).json({... depositTransactions, mintTransactions ...}).
RespondSuccess(t) ==
  [t EXCEPT !.pc = "done", !.status = 200,
            !.issued = Append(t.issued, Event("complete", 0))]

TransferOver == transfer.pc \in {"idle", "done", "failed"}

\* The route up to its first call of queryUserBalances.
TransferReceive(amount, authorized, hasWalletSet, supported) ==
  LET fresh == [NoTransfer EXCEPT !.request = transfer.request + 1,
                                  !.built = transfer.built, !.drawn = transfer.drawn]
      A == amountToBaseUnits(amount)
  IN
  /\ TransferOver
  /\ transfer.request < NumTransfers
  /\ transfer' =
       IF ~authorized THEN RespondError(fresh, 401, "Unauthorized")
       ELSE IF ~hasWalletSet THEN RespondError(fresh, 404, "User has no wallet set")
       ELSE IF ~supported
         THEN RespondError(fresh, 400, "Unsupported chain/network combination")
       ELSE [fresh EXCEPT !.pc = "balances", !.amountBigInt = A,
                          !.maxFee = feeBuffer(A), !.totalRequired = A + feeBuffer(A)]
  /\ UNCHANGED <<now, pendingNonces, generated, facilitatorNetworkCache, preq, fac,
                 authorizationState, submitted, calls, selection, codec, deposit>>

\* The next token of Step 3, or Step 4 when every token is deposited.
AfterIndexedFirstOnly(t) ==
  [t EXCEPT !.pc = "walletAddress", !.token = 1]

AfterIndexed(t) ==
  IF t.token < Len(t.selected)
    THEN [t EXCEPT !.pc = "approve", !.token = t.token + 1, !.attempt = 1]
    ELSE [t EXCEPT !.pc = "walletAddress", !.token = 1]

\* queryUserBalances returns; Step 2 selects and Step 3 calls depositToGateway
\* for the first token.
BalancesQueried(balances) ==
  LET out == selectTokensForTransfer(balances, transfer.totalRequired)
      t == [transfer EXCEPT !.balances = balances,
                            !.issued = Append(transfer.issued, Event("balances", 0))]
  IN
  /\ transfer.pc = "balances"
  /\ transfer' =
       IF Len(balances) = 0
         THEN RespondError(t, 400, "No USDC balances found in user wallets")
       ELSE IF out.threw THEN RespondError(t, 500, "Insufficient balance")
       ELSE [t EXCEPT !.pc = "approve", !.selected = out.selected, !.token = 1,
                      !.attempt = 1, !.issued = Append(t.issued, Event("selected", 0))]
  /\ UNCHANGED <<now, pendingNonces, generated, facilitatorNetworkCache, preq, fac,
                 authorizationState, submitted, calls, selection, codec, deposit>>

\* queryUserBalances, getWallet, the prefund, getWalletAddress or the balance
\* poll rejects: the route's catch answers 500.
TransferCallThrows ==
  /\ transfer.pc \in {"balances", "approve", "deposit", "index", "walletAddress"}
  /\ transfer' = RespondError(transfer, 500, "external call failed")
  /\ UNCHANGED <<now, pendingNonces, generated, facilitatorNetworkCache, preq, fac,
                 authorizationState, submitted, calls, selection, codec, deposit>>

\* createContractExecutionTransaction for approve(address,uint256) answers.
SubmitApprove(created) ==
  /\ transfer.pc = "approve"
  /\ transfer' =
       LET t == [transfer EXCEPT
                   !.issued = Append(transfer.issued, Event("approve", transfer.token))]
       IN IF created THEN [t EXCEPT !.pc = "approveWait"]
          ELSE RespondError(t, 500, "Failed to create approval transaction")
  /\ UNCHANGED <<now, pendingNonces, generated, facilitatorNetworkCache, preq, fac,
                 authorizationState, submitted, calls, selection, codec, deposit>>

\* waitForTransactionConfirmed(approveTx.data.id) returns or throws.
ApproveWait(state) ==
  LET msg == waitForTransactionConfirmed(state)
  IN
  /\ transfer.pc = "approveWait"
  /\ transfer' =
       IF msg = Null
         THEN [transfer EXCEPT !.pc = "deposit", !.attempt = 1,
                 !.issued = Append(transfer.issued,
                                   Event("approveConfirmed", transfer.token))]
       ELSE IF ThrowsOn(msg, transfer.attempt) THEN RespondError(transfer, 500, msg)
       ELSE IF transfer.attempt < maxRetries
         THEN [transfer EXCEPT !.pc = "approve", !.attempt = transfer.attempt + 1,
                               !.retriedOn = msg]
       ELSE [transfer EXCEPT !.pc = "deposit", !.attempt = 1]
  /\ UNCHANGED <<now, pendingNonces, generated, facilitatorNetworkCache, preq, fac,
                 authorizationState, submitted, calls, selection, codec, deposit>>

\* createContractExecutionTransaction for deposit(address,uint256) answers.
SubmitDeposit(created) ==
  /\ transfer.pc = "deposit"
  /\ transfer' =
       LET t == [transfer EXCEPT
                   !.issued = Append(transfer.issued, Event("deposit", transfer.token))]
       IN IF created THEN [t EXCEPT !.pc = "depositWait"]
          ELSE RespondError(t, 500, "Failed to create deposit transaction")
  /\ UNCHANGED <<now, pendingNonces, generated, facilitatorNetworkCache, preq, fac,
                 authorizationState, submitted, calls, selection, codec, deposit>>

\* waitForTransactionConfirmed(lastDepositTxId) returns or throws.
DepositWait(state) ==
  LET msg == waitForTransactionConfirmed(state)
  IN
  /\ transfer.pc = "depositWait"
  /\ transfer' =
       IF msg = Null
         THEN [transfer EXCEPT !.pc = "index",
                 !.issued = Append(transfer.issued,
                                   Event("depositConfirmed", transfer.token))]
       ELSE IF ThrowsOn(msg, transfer.attempt) THEN RespondError(transfer, 500, msg)
       ELSE IF transfer.attempt < maxRetries
         THEN [transfer EXCEPT !.pc = "deposit", !.attempt = transfer.attempt + 1,
                               !.retriedOn = msg]
       ELSE [transfer EXCEPT !.pc = "index"]
  /\ UNCHANGED <<now, pendingNonces, generated, facilitatorNetworkCache, preq, fac,
                 authorizationState, submitted, calls, selection, codec, deposit>>

\* waitForGatewayBalanceIncrease returns: depositToGateway returns the id of
\* the last deposit transaction and the route goes on.
BalanceIndexed ==
  LET tok == transfer.selected[transfer.token]
      t == [transfer EXCEPT
              !.issued = Append(transfer.issued, Event("indexed", transfer.token)),
              !.depositTxIds = Append(transfer.depositTxIds,
                                      [walletId |-> tok.walletId, amount |-> tok.amount,
                                       attempt |-> transfer.attempt])]
  IN
  /\ transfer.pc = "index"
  /\ transfer' = AfterIndexed(t)
  /\ UNCHANGED <<now, pendingNonces, generated, facilitatorNetworkCache, preq, fac,
                 authorizationState, submitted, calls, selection, codec, deposit>>

\* getWalletAddress returns: the burn intent of the token is created and
\* handed to signBurnIntent.
BuildBurnIntent ==
  LET tok == transfer.selected[transfer.token]
      intent == createBurnIntent(tok.walletId, "destination",
                  burnValue(transfer.amountBigInt, transfer.maxFee, tok),
                  transfer.maxFee, transfer.drawn)
  IN
  /\ transfer.pc = "walletAddress"
  /\ transfer' = [transfer EXCEPT !.pc = "sign", !.drawn = transfer.drawn + 1,
                    !.built = Append(transfer.built, intent),
                    !.issued = Append(transfer.issued, Event("sign", transfer.token))]
  /\ UNCHANGED <<now, pendingNonces, generated, facilitatorNetworkCache, preq, fac,
                 authorizationState, submitted, calls, selection, codec, deposit>>

\* signTypedData answers: with a signature the request is kept and the loop
\* goes on; after the last token the batch is posted to the Gateway API.
SignBurnIntent(signed) ==
  LET intent == transfer.built[Len(transfer.built)]
  IN
  /\ transfer.pc = "sign"
  /\ transfer' =
       IF ~signed THEN RespondError(transfer, 500, "Failed to sign burn intent")
       ELSE [transfer EXCEPT
               !.burnIntentRequests = Append(transfer.burnIntentRequests, intent),
               !.issued = Append(transfer.issued, Event("signed", transfer.token)),
               !.pc = IF transfer.token < Len(transfer.selected)
                        THEN "walletAddress" ELSE "attest",
               !.token = IF transfer.token < Len(transfer.selected)
                           THEN transfer.token + 1 ELSE 0]
  /\ UNCHANGED <<now, pendingNonces, generated, facilitatorNetworkCache, preq, fac,
                 authorizationState, submitted, calls, selection, codec, deposit>>

\* The Gateway API answers the batch; with an ok answer mintOnDestinationChain
\* starts on the normalized items.
GatewayAnswers(ok, body, relayerKey) ==
  LET items == normalizeItems(body)
      t == [transfer EXCEPT !.attestations = items,
              !.issued = Append(transfer.issued, Event("attestations", 0))]
  IN
  /\ transfer.pc = "attest"
  /\ transfer' =
       IF ~ok THEN RespondError(transfer, 500, "Gateway API error")
       ELSE IF ~relayerKey THEN RespondError(t, 500, "RELAYER_PRIVATE_KEY not configured")
       ELSE IF Len(items) = 0 THEN RespondSuccess(t)
       ELSE [t EXCEPT !.pc = "mint", !.token = 1]
  /\ UNCHANGED <<now, pendingNonces, generated, facilitatorNetworkCache, preq, fac,
                 authorizationState, submitted, calls, selection, codec, deposit>>

\* client.writeContract(gatewayMint) of the current attestation answers.
Mint(sent) ==
  LET t == [transfer EXCEPT
              !.issued = Append(transfer.issued, Event("mint", transfer.token))]
  IN
  /\ transfer.pc = "mint"
  /\ transfer' =
       IF ~sent THEN RespondError(t, 500, "gatewayMint failed")
       ELSE LET u == [t EXCEPT !.mintTxHashes =
                                 Append(t.mintTxHashes, t.attestations[t.token])]
            IN IF t.token < Len(t.attestations)
                 THEN [u EXCEPT !.token = t.token + 1]
                 ELSE RespondSuccess(u)
  /\ UNCHANGED <<now, pendingNonces, generated, facilitatorNetworkCache, preq, fac,
                 authorizationState, submitted, calls, selection, codec, deposit>>

\* One request, any amount, any answers of the services it calls.
NextTransfer ==
  \/ \E a \in TransferAmounts, authorized, hasWalletSet, supported \in BOOLEAN :
        transfer.request = 0 /\ TransferReceive(a, authorized, hasWalletSet, supported)
  \/ \E b \in TransferBalances : BalancesQueried(b)
  \/ TransferCallThrows
  \/ \E created \in BOOLEAN : SubmitApprove(created)
  \/ \E st \in WaitOutcomes : ApproveWait(st)
  \/ \E created \in BOOLEAN : SubmitDeposit(created)
  \/ \E st \in WaitOutcomes : DepositWait(st)
  \/ BalanceIndexed
  \/ BuildBurnIntent
  \/ \E signed \in BOOLEAN : SignBurnIntent(signed)
  \/ \E ok, relayerKey \in BOOLEAN, body \in GatewayBodies(Len(transfer.selected)) :
        GatewayAnswers(ok, body, relayerKey)
  \/ \E sent \in BOOLEAN : Mint(sent)

SpecTransfer == Init /\ [][NextTransfer]_vars

\* The same transfer asked for again and again by a user whose two wallets
\* cover it.
RepeatBalances == {Wallets(<<700000, 500000>>), Wallets(<<1001000>>)}

NextRepeat ==
  \/ TransferReceive("1", TRUE, TRUE, TRUE)
  \/ \E b \in RepeatBalances : BalancesQueried(b)
  \/ TransferCallThrows
  \/ \E created \in BOOLEAN : SubmitApprove(created)
  \/ \E st \in {"CONFIRMED", "FAILED", "timeout"} : ApproveWait(st)
  \/ \E created \in BOOLEAN : SubmitDeposit(created)
  \/ \E st \in {"CONFIRMED", "FAILED", "timeout"} : DepositWait(st)
  \/ BalanceIndexed
  \/ BuildBurnIntent
  \/ \E signed \in BOOLEAN : SignBurnIntent(signed)
  \/ \E ok \in BOOLEAN, body \in GatewayBodies(Len(transfer.selected)) :
        GatewayAnswers(ok, body, TRUE)
  \/ \E sent \in BOOLEAN : Mint(sent)

SpecRepeat == Init /\ [][NextRepeat]_vars


\* ------------------------------------------------- transfer request claims
Issued == transfer.issued

IssuedAt(step, token) ==
  {i \in 1..Len(Issued) : Issued[i] = Event(step, token)}

IssuedBefore(step, token, j) == \E i \in IssuedAt(step, token) : i < j

StepRank(e) ==
  CASE e.step = "balances" -> 1
    [] e.step = "selected" -> 2
    [] e.step \in {"approve", "approveConfirmed", "deposit", "depositConfirmed",
                   "indexed"} -> 3
    [] e.step \in {"sign", "signed"} -> 4
    [] e.step = "attestations" -> 5
    [] e.step = "mint" -> 6
    [] OTHER -> 7

TokenStepRank(e) ==
  CASE e.step = "approve" -> 1
    [] e.step = "approveConfirmed" -> 2
    [] e.step = "deposit" -> 3
    [] e.step = "depositConfirmed" -> 4
    [] OTHER -> 5

SelectedTokens == 1..Len(transfer.selected)

\* C21: within one transfer request the steps occur only in the order
\* balances queried, tokens selected, per token approve confirmed, then
\* deposit confirmed, then balance indexed, burn intents signed,
\* attestations received, mints submitted, complete; no burn intent is
\* signed before every selected token's deposit is confirmed and indexed,
\* and no mint is submitted before the attestation batch has returned.
C21_StepsInOrder ==
  /\ \A i, j \in 1..Len(Issued) : i < j =>
       /\ StepRank(Issued[i]) <= StepRank(Issued[j])
       /\ (StepRank(Issued[i]) = 3 /\ StepRank(Issued[j]) = 3) =>
            \/ Issued[i].token < Issued[j].token
            \/ /\ Issued[i].token = Issued[j].token
               /\ TokenStepRank(Issued[i]) <= TokenStepRank(Issued[j])
  /\ \A j \in 1..Len(Issued) :
       LET e == Issued[j]
       IN /\ e.step = "selected" => IssuedBefore("balances", 0, j)
          /\ e.step = "approve" =>
               /\ IssuedBefore("selected", 0, j)
               /\ e.token > 1 => IssuedBefore("indexed", e.token - 1, j)
          /\ e.step = "deposit" => IssuedBefore("approveConfirmed", e.token, j)
          /\ e.step = "depositConfirmed" => IssuedBefore("deposit", e.token, j)
          /\ e.step = "indexed" => IssuedBefore("depositConfirmed", e.token, j)
          /\ e.step \in {"sign", "signed"} =>
               \A k \in SelectedTokens :
                  /\ IssuedBefore("depositConfirmed", k, j)
                  /\ IssuedBefore("indexed", k, j)
          /\ e.step = "attestations" =>
               \A k \in SelectedTokens : IssuedBefore("signed", k, j)
          /\ e.step = "mint" => IssuedBefore("attestations", 0, j)
          /\ e.step = "complete" => IssuedBefore("attestations", 0, j)

\* A request over three wallets whose second approve needed a retry ran to
\* completion and minted.
C21_Witness ==
  /\ transfer.pc = "done"
  /\ Len(transfer.selected) = 3
  /\ Cardinality(IssuedAt("approve", 2)) = 2
  /\ Cardinality(IssuedAt("mint", 1)) = 1


\* A step of the request has failed: the reason is recorded.
StepFailed == transfer.error # ""

\* C22: Failed is absorbing: once a step of a transfer request has failed
\* the request has ended with an error response (400, 401, 404 or 500),
\* never a success response, and nothing more is issued for that request: no
\* call of a later step is made and the response does not change.
C22_FailedIsAbsorbing ==
  /\ [](StepFailed => /\ transfer.pc = "failed"
                      /\ transfer.status \in {400, 401, 404, 500})
  /\ [](transfer.status = 200 => ~StepFailed /\ transfer.pc = "done")
  /\ [][(StepFailed /\ transfer'.request = transfer.request) =>
          /\ transfer'.issued = transfer.issued
          /\ transfer'.status = transfer.status
          /\ transfer'.built = transfer.built
          /\ transfer'.pc = "failed"]_vars

\* The deposit of the second of three wallets was denied: the first wallet
\* is deposited, nothing was approved for the third and nothing was signed.
C22_Witness ==
  /\ transfer.pc = "failed"
  /\ transfer.status = 500
  /\ transfer.error = "failed with state=DENIED"
  /\ Len(transfer.selected) = 3
  /\ Len(transfer.depositTxIds) = 1
  /\ IssuedAt("deposit", 2) # {}
  /\ IssuedAt("approve", 3) = {}
  /\ transfer.built = <<>>


\* The request has computed its amounts and has not been refused before.
AmountsComputed == transfer.totalRequired > 0

\* The burn intents built for the request being handled.
BuiltForRequest ==
  {transfer.burnIntentRequests[i] : i \in 1..Len(transfer.burnIntentRequests)}
  \cup (IF transfer.pc = "sign" THEN {transfer.built[Len(transfer.built)]} ELSE {})

WalletsOf(entries) == [i \in 1..Len(entries) |-> entries[i].walletId]

DepositorsOf(intents) == [i \in 1..Len(intents) |-> intents[i].sourceDepositor]

\* C24: a successful transfer builds exactly one burn intent per selected
\* token and submits exactly one mint per attestation the Gateway API
\* returned: the result's list of deposit transaction ids has one entry per
\* selected token, in order, and its list of mint transaction hashes one
\* entry per returned attestation, in order.
C24_OnePerTokenAndPerAttestation ==
  transfer.pc = "done" =>
    /\ transfer.selected # <<>>
    /\ DepositorsOf(transfer.burnIntentRequests) = WalletsOf(transfer.selected)
    /\ WalletsOf(transfer.depositTxIds) = WalletsOf(transfer.selected)
    /\ transfer.mintTxHashes = transfer.attestations
    /\ \A k \in 1..Len(transfer.attestations) : Cardinality(IssuedAt("mint", k)) = 1

\* Two wallets were selected and the Gateway API answered the batch of two
\* intents with one attestation: two deposit ids, one mint hash.
C24_Witness ==
  /\ transfer.pc = "done"
  /\ Len(transfer.selected) = 2
  /\ Len(transfer.burnIntentRequests) = 2
  /\ Len(transfer.depositTxIds) = 2
  /\ Len(transfer.attestations) = 1
  /\ Len(transfer.mintTxHashes) = 1

\* C24 as stated: one attestation per submitted intent, so that both lists
\* of the result have as many entries as there are selected tokens.
C24_OnePerSelectedToken ==
  transfer.pc = "done" =>
    /\ Len(transfer.burnIntentRequests) = Len(transfer.selected)
    /\ Len(transfer.attestations) = Len(transfer.burnIntentRequests)
    /\ Len(transfer.mintTxHashes) = Len(transfer.attestations)
    /\ Len(transfer.depositTxIds) = Len(transfer.selected)
    /\ Len(transfer.mintTxHashes) = Len(transfer.selected)


\* C25: every burn intent that is built carries a freshly drawn salt, also
\* when the same transfer is asked for again with identical parameters: no
\* two burn intents ever built share a salt.
C25_SaltsNeverShared ==
  /\ Len(transfer.built) = transfer.drawn
  /\ \A i, j \in 1..Len(transfer.built) :
       i # j => transfer.built[i].salt # transfer.built[j].salt

\* The same two-wallet transfer was handled twice: the intents of the second
\* request equal those of the first in everything but the salt.
C25_Witness ==
  /\ transfer.request = 2
  /\ Len(transfer.built) = 4
  /\ \A i \in 1..2 :
       /\ [transfer.built[i] EXCEPT !.salt = 0] = [transfer.built[i + 2] EXCEPT !.salt = 0]
       /\ transfer.built[i].salt # transfer.built[i + 2].salt


\* ------------------------------------------------- payment header codec
\* A property the payload does not carry (undefined in the object, no member
\* in the JSON text).
Absent == "absent"
AbsentNumber == -1

\* A 0x hex string of len digits holding r, s and the byte v.
HexSignature(len, r, s, v) == [len |-> len, r |-> r, s |-> s, v |-> v]
AbsentSignature == HexSignature(0, "", "", "")

\* An EIP3009PaymentPayload as a client builds it.
PaymentPayload(from, to, value, v, r, s, signature) ==
  [x402Version |-> 1, scheme |-> "exact", network |-> "arc-testnet",
   payload |-> [from |-> from, to |-> to, value |-> value, validAfter |-> 0,
                validBefore |-> 2, nonce |-> "0xnonce",
                v |-> v, r |-> r, s |-> s, signature |-> signature]]

CodecPayloads ==
  {PaymentPayload(from, to, value, vrs[1], vrs[2], vrs[3], sig) :
     from \in {Payer, getAddress(Payer)}, to \in {WalletArc, getAddress(WalletArc)},
     value \in {"1", ""},
     vrs \in {<<27, "r0", "s0">>, <<28, "r0", "s0">>, <<0, "r0", "s0">>,
              <<AbsentNumber, Absent, Absent>>, <<27, Absent, "s0">>},
     sig \in {AbsentSignature, HexSignature(130, "r0", "s0", "1b"),
              HexSignature(130, "R1", "s1", "1c"), HexSignature(130, "r0", "s0", "00"),
              HexSignature(128, "r0", "s0", "")}}

\* Number.prototype.toString and its inverse on the numbers of the model.
NumberToText(n) ==
  CASE n = 0 -> "0" [] n = 1 -> "1" [] n = 2 -> "2" [] n = 3 -> "3" [] n = 4 -> "4"
    [] n = 5 -> "5" [] n = 6 -> "6" [] n = 7 -> "7" [] n = 8 -> "8" [] n = 9 -> "9"
    [] n = 27 -> "27" [] n = 28 -> "28"
    [] OTHER -> "NaN"

TextToNumber(text) ==
  CASE text = "0" -> 0 [] text = "1" -> 1 [] text = "2" -> 2 [] text = "3" -> 3
    [] text = "4" -> 4 [] text = "5" -> 5 [] text = "6" -> 6 [] text = "7" -> 7
    [] text = "8" -> 8 [] text = "9" -> 9 [] text = "27" -> 27
    [] text = "28" -> 28 [] OTHER -> AbsentNumber

\* parseInt(hex.slice(128, 130), 16)
parseIntHex(byte) ==
  CASE byte = "1b" -> 27 [] byte = "1c" -> 28 [] byte = "00" -> 0 [] OTHER -> AbsentNumber

\* JSON.stringify: a member per defined property, strings quoted and numbers
\* in decimal; undefined properties are left out.
NoMember == [type |-> "none", text |-> ""]
StringMember(str) == IF str = Absent THEN NoMember ELSE [type |-> "string", text |-> str]
NumberMember(n) ==
  IF n = AbsentNumber THEN NoMember ELSE [type |-> "number", text |-> NumberToText(n)]
SignatureMember(sig) ==
  [type |-> IF sig = AbsentSignature THEN "none" ELSE "string", text |-> sig]

JSONstringify(payload) ==
  LET p == payload.payload
  IN [x402Version |-> NumberMember(payload.x402Version),
      scheme |-> StringMember(payload.scheme), network |-> StringMember(payload.network),
      payload |-> [from |-> StringMember(p.from), to |-> StringMember(p.to),
                   value |-> StringMember(p.value),
                   validAfter |-> NumberMember(p.validAfter),
                   validBefore |-> NumberMember(p.validBefore),
                   nonce |-> StringMember(p.nonce), v |-> NumberMember(p.v),
                   r |-> StringMember(p.r), s |-> StringMember(p.s),
                   signature |-> SignatureMember(p.signature)]]

\* JSON.parse of such a text.
StringOf(member) == IF member.type = "none" THEN Absent ELSE member.text
NumberOf(member) ==
  IF member.type = "none" THEN AbsentNumber ELSE TextToNumber(member.text)

JSONparseLowerCase(text) ==
  LET p == text.payload
  IN [x402Version |-> NumberOf(text.x402Version), scheme |-> StringOf(text.scheme),
      network |-> StringOf(text.network),
      payload |-> [from |-> toLowerCase(StringOf(p.from)),
                   to |-> toLowerCase(StringOf(p.to)), value |-> StringOf(p.value),
                   validAfter |-> NumberOf(p.validAfter),
                   validBefore |-> NumberOf(p.validBefore), nonce |-> StringOf(p.nonce),
                   v |-> NumberOf(p.v), r |-> StringOf(p.r), s |-> StringOf(p.s),
                   signature |-> p.signature.text]]

JSONparse(text) ==
  LET p == text.payload
  IN [x402Version |-> NumberOf(text.x402Version), scheme |-> StringOf(text.scheme),
      network |-> StringOf(text.network),
      payload |-> [from |-> StringOf(p.from), to |-> StringOf(p.to),
                   value |-> StringOf(p.value), validAfter |-> NumberOf(p.validAfter),
                   validBefore |-> NumberOf(p.validBefore), nonce |-> StringOf(p.nonce),
                   v |-> NumberOf(p.v), r |-> StringOf(p.r), s |-> StringOf(p.s),
                   signature |-> p.signature.text]]

\* Buffer.from(JSON.stringify(payload)).toString('base64')
encodePaymentHeader(payload) == [base64 |-> JSONstringify(payload)]

\* !x for a string or a number property.
FalsyString(str) == str \in {Absent, ""}
FalsyNumber(n) == n \in {AbsentNumber, 0}

\* normalizeSignature splits payload.signature when v, r or s is missing.
SplitsSignature(p) ==
  /\ p.signature # AbsentSignature
  /\ FalsyNumber(p.v) \/ FalsyString(p.r) \/ FalsyString(p.s)

\* The payload as normalizeSignature leaves it.
normalizedPayload(payload) ==
  LET p == payload.payload
  IN IF SplitsSignature(p) /\ p.signature.len = 130
       THEN [payload EXCEPT !.payload.r = p.signature.r, !.payload.s = p.signature.s,
                            !.payload.v = parseIntHex(p.signature.v)]
       ELSE payload

\* What normalizeSignature returns.
normalizeSignatureResult(payload) ==
  LET p == payload.payload
      q == normalizedPayload(payload).payload
  IN /\ ~FalsyNumber(payload.x402Version)
     /\ ~FalsyString(payload.scheme) /\ ~FalsyString(payload.network)
     /\ ~FalsyString(p.from) /\ ~FalsyString(p.to) /\ ~FalsyString(p.value)
     /\ p.validAfter # AbsentNumber /\ p.validBefore # AbsentNumber
     /\ ~FalsyString(p.nonce)
     /\ SplitsSignature(p) => p.signature.len = 130
     /\ q.v # AbsentNumber /\ ~FalsyString(q.r) /\ ~FalsyString(q.s)
     /\ q.v \in {27, 28}

\* decodePaymentHeader on the header encodePaymentHeader produced.
decodeEncodedHeader(header) ==
  LET payload == JSONparse(header.base64)
  IN IF normalizeSignatureResult(payload)
       THEN [ok |-> TRUE, payload |-> normalizedPayload(payload)]
       ELSE [ok |-> FALSE, payload |-> payload]

\* A client encodes a payload for the X-PAYMENT header.
Encode(payload) ==
  /\ codec.pc = "none"
  /\ codec' = [pc |-> "encoded", original |-> payload,
               header |-> encodePaymentHeader(payload)]
  /\ UNCHANGED <<now, pendingNonces, generated, facilitatorNetworkCache, preq, fac,
                 authorizationState, submitted, calls, selection, transfer, deposit>>

\* The receiver decodes the header.
Decode ==
  LET out == decodeEncodedHeader(codec.header)
  IN
  /\ codec.pc = "encoded"
  /\ codec' = [pc |-> "decoded", original |-> codec.original, header |-> codec.header,
               ok |-> out.ok, decoded |-> out.payload]
  /\ UNCHANGED <<now, pendingNonces, generated, facilitatorNetworkCache, preq, fac,
                 authorizationState, submitted, calls, selection, transfer, deposit>>

NextCodec ==
  \/ \E payload \in CodecPayloads : Encode(payload)
  \/ Decode

SpecCodec == Init /\ [][NextCodec]_vars

\* The payload carries its signature as v (27 or 28), r and s.
CarriesVRS(payload) ==
  /\ payload.payload.v \in {27, 28}
  /\ ~FalsyString(payload.payload.r) /\ ~FalsyString(payload.payload.s)

\* The payload with the three signature components blanked.
WithoutVRS(payload) ==
  [payload EXCEPT !.payload.v = AbsentNumber, !.payload.r = Absent, !.payload.s = Absent]

\* C26: decoding an encoded payment header that the decoder accepts returns
\* the original payload unchanged, field for field, when the payload carries
\* v, r and s, with no case normalisation of addresses; when it carries a
\* combined signature and lacks one of them, v, r and s come back filled in
\* from the signature and every other field is unchanged. A payload with an
\* empty required field is not accepted.
C26_DecodeReturnsPayload ==
  codec.pc = "decoded" =>
    /\ codec.ok =>
         /\ WithoutVRS(codec.decoded) = WithoutVRS(codec.original)
         /\ codec.decoded.payload.from = codec.original.payload.from
         /\ codec.decoded.payload.to = codec.original.payload.to
         /\ CarriesVRS(codec.decoded)
    /\ (codec.ok /\ CarriesVRS(codec.original)) => codec.decoded = codec.original
    /\ (CarriesVRS(codec.original) /\ codec.original.payload.value # "") => codec.ok
    /\ codec.original.payload.value = "" => ~codec.ok

\* A payload with checksum-case addresses and v, r, s came back as it was.
C26_Witness ==
  /\ codec.pc = "decoded"
  /\ codec.ok
  /\ codec.original.payload.from = getAddress(Payer)
  /\ codec.original.payload.to = getAddress(WalletArc)
  /\ codec.original.payload.signature = AbsentSignature
  /\ codec.decoded = codec.original

\* C26 as stated: every encoded payload decodes to itself.
C26_DecodeIsIdentity ==
  codec.pc = "decoded" => codec.ok /\ codec.decoded = codec.original


\* ------------------------------------------------- signature bit mutations
\* Authorizations for the arc-testnet offer, each signed by the key of from.
SignedPairs ==
  {GoodPayload,
   SignedPayload("arc-testnet", getAddress(Payer), getAddress(WalletArc), "1", 0,
                 MaxTime, 1, Payer),
   SignedPayload("arc-testnet", Mallory, WalletArc, "1", 0, MaxTime, 1, Mallory)}

\* v with bit k flipped.
FlipBit(v, k) == IF (v \div (2 ^ k)) % 2 = 1 THEN v - 2 ^ k ELSE v + 2 ^ k

\* The payloads whose signature differs from the given one in a single bit:
\* in the byte v, in r, or in s, where flipping the top bit of s takes it
\* above half the curve order ("high").
SingleBitMutations(payload) ==
  {[payload EXCEPT !.payload.v = FlipBit(payload.payload.v, k)] : k \in 0..7}
  \cup {[payload EXCEPT !.payload.r = "flipped"], [payload EXCEPT !.payload.s = "flipped"],
        [payload EXCEPT !.payload.s = "high"]}

MutatedPairs == UNION {SingleBitMutations(pl) : pl \in SignedPairs}

\* The facilitator is sent signed authorizations and their mutations.
NextRecover ==
  \/ Tick
  \/ \E k \in {"verify", "settle"}, pl \in SignedPairs \cup MutatedPairs :
        DirectSend(FirstDirect, k, pl, GoodRequirements)
  \/ FacReceive(FirstDirect)
  \/ FacRead(FirstDirect)
  \/ FacDecide(FirstDirect)
  \/ FacSettleRespond(FirstDirect)
  \/ FacSettleNoData(FirstDirect)
  \/ \E i \in 1..Len(submitted) : Mine(i)

SpecRecover == Init /\ [][NextRecover]_vars

\* What the verifier recovers for the request's payload.
RecoveredFor(f) ==
  LET ctx == networkContexts(f.requirements.network)
  IN verifyTransferAuthorization(toAuthorization(f.paymentPayload),
       toSignature(f.paymentPayload), f.requirements.token, ctx.usdcName,
       ctx.usdcVersion, ctx.chainId)

SignatureChecked(f) == f.pc \notin {"idle", "sent"}

DigestFor(f) ==
  LET ctx == networkContexts(f.requirements.network)
  IN TransferDigest(toAuthorization(f.paymentPayload), f.requirements.token,
                    ctx.usdcName, ctx.usdcVersion, ctx.chainId)

\* C34: verifyTransferAuthorization returns no address, and never reaches
\* the recovery, when v is neither 27 nor 28 or s is above half the curve
\* order; when the recovery is reached, what it recovers is returned as it
\* is, also when it is not the address the authorization names: the engine
\* returns that address and the caller finds the mismatch.
C34_RefusesBeforeRecoveryOrReturnsAddress ==
  \A c \in Callers :
    LET f == fac[c]
        auth == toAuthorization(f.paymentPayload)
        sig == toSignature(f.paymentPayload)
    IN SignatureChecked(f) =>
         /\ (sig.v \notin {27, 28} \/ sig.s = "high") =>
              /\ RecoveredFor(f) = Null
              /\ ~ReachesRecoverAddress(auth, sig)
         /\ ReachesRecoverAddress(auth, sig) =>
              /\ RecoveredFor(f) = recoverAddress(DigestFor(f), sig)
              /\ RecoveredFor(f) # Null
              /\ toLowerCase(RecoveredFor(f)) # toLowerCase(auth.from) =>
                   /\ RecoveredFor(f) = Unrelated
                   /\ Rejected(f, "Invalid EIP-3009 signature")
         /\ RecoveredFor(f) = Null => Rejected(f, "Invalid EIP-3009 signature")

\* The payer's signature with s above half the curve order was refused
\* without an address, and the same signature with a bit of s flipped below
\* it would have been recovered to another address.
C34_Witness ==
  /\ fac[FirstDirect].paymentPayload = [GoodPayload EXCEPT !.payload.s = "high"]
  /\ Rejected(fac[FirstDirect], "Invalid EIP-3009 signature")
  /\ RecoveredFor(fac[FirstDirect]) = Null
  /\ ReachesRecoverAddress(toAuthorization(GoodPayload),
                           toSignature([GoodPayload EXCEPT !.payload.s = "flipped"]))


\* ------------------------------------------------- burn intents and deposits
\* The amount this request deposited from the wallet: what Step 3 passed to
\* depositToGateway for it.
DepositedFrom(walletId) ==
  SumAmounts(SelectSeq(transfer.depositTxIds, LAMBDA d : d.walletId = walletId))

\* C28: for every selected source wallet, the burn intent built for that
\* wallet asks for no more than was deposited from it in this request: its
\* value plus its maxFee is at most the amount deposited from that wallet,
\* for any number of selected wallets.
C28_BurnWithinDeposit ==
  \A intent \in BuiltForRequest :
    intent.value + intent.maxFee <= DepositedFrom(intent.sourceDepositor)

RECURSIVE SumValues(_)
SumValues(intents) ==
  IF intents = <<>> THEN 0 ELSE Head(intents).value + SumValues(Tail(intents))

\* C29: the values of all burn intents built for one transfer request sum to
\* the requested amount A, whether one or several source wallets were
\* selected.
C29_BurnValuesSumToAmount ==
  (transfer.selected # <<>> /\ Len(transfer.burnIntentRequests) = Len(transfer.selected))
    => SumValues(transfer.burnIntentRequests) = transfer.amountBigInt


\* ------------------------------------------------- deposit retries
Submissions(step, token) == Cardinality(IssuedAt(step, token))

LastIssued == Issued[Len(Issued)]

\* C30: one depositToGateway call submits at most 3 approve transactions and
\* at most 3 deposit transactions, and when the third attempt of either step
\* does not confirm (the on-chain failed state included) the call fails
\* without a further submission.
C30_AtMostThreeAttempts ==
  /\ [](\A t \in SelectedTokens :
          Submissions("approve", t) <= 3 /\ Submissions("deposit", t) <= 3)
  /\ [](transfer.attempt <= 3)
  /\ []((transfer.pc = "failed" /\ transfer.error = "failed with state=FAILED") =>
          /\ LastIssued.step \in {"approve", "deposit"}
          /\ LastIssued.token = transfer.token
          /\ Submissions(LastIssued.step, transfer.token) = 3
          /\ transfer.attempt = 3)
  /\ [][(transfer.pc = "approveWait" /\ transfer.attempt = 3 /\ transfer' # transfer) =>
          \/ transfer'.pc = "failed" /\ transfer'.issued = transfer.issued
          \/ /\ transfer'.pc = "deposit"
             /\ transfer'.issued =
                  Append(transfer.issued, Event("approveConfirmed", transfer.token))]_vars
  /\ [][(transfer.pc = "depositWait" /\ transfer.attempt = 3 /\ transfer' # transfer) =>
          \/ transfer'.pc = "failed" /\ transfer'.issued = transfer.issued
          \/ /\ transfer'.pc = "index"
             /\ transfer'.issued =
                  Append(transfer.issued, Event("depositConfirmed", transfer.token))]_vars

\* The third approve of a wallet confirmed and its third deposit ended
\* FAILED: six transactions were submitted and the request failed.
C30_Witness ==
  /\ transfer.pc = "failed"
  /\ transfer.error = "failed with state=FAILED"
  /\ Submissions("approve", 1) = 3
  /\ Submissions("deposit", 1) = 3
  /\ transfer.depositTxIds = <<>>


\* The messages of the failures of an attempt that are no on-chain failed
\* state: a timeout of the confirmation wait, a denied or cancelled state,
\* an answer without a transaction id.
OtherFailures ==
  {"not confirmed within timeout window", "failed with state=DENIED",
   "failed with state=CANCELLED", "Failed to create approval transaction",
   "Failed to create deposit transaction"}

\* C31: an approve or deposit attempt is retried only when its failure is
\* the on-chain failed state; any other failure (a confirmation timeout, a
\* denied or cancelled state, an answer with no transaction id) ends the
\* request at once, with no further submission of that step and no later
\* step started.
C31_RetryOnlyOnFailedState ==
  /\ [](transfer.retriedOn \in {"", "failed with state=FAILED"})
  /\ [][(transfer.pc \in {"approveWait", "depositWait"}
           /\ transfer'.issued # transfer.issued /\ transfer'.pc # "failed") =>
          transfer'.issued[Len(transfer'.issued)].step
            \in {"approveConfirmed", "depositConfirmed"}]_vars
  /\ [][(transfer.pc \in {"approveWait", "depositWait"}
           /\ transfer'.pc \in {"approve", "deposit"}
           /\ transfer'.attempt = transfer.attempt + 1) =>
          /\ transfer'.retriedOn = "failed with state=FAILED"
          /\ transfer.attempt < 3
          /\ transfer'.issued = transfer.issued]_vars
  /\ []((transfer.pc = "failed" /\ transfer.error \in OtherFailures) =>
          /\ LastIssued.step \in {"approve", "deposit"}
          /\ LastIssued.token = transfer.token
          /\ Submissions(LastIssued.step, transfer.token) = transfer.attempt
          /\ Len(transfer.depositTxIds) = transfer.token - 1
          /\ transfer.built = <<>>)

\* The first deposit of the first wallet timed out after its approve had
\* been retried once: no second deposit, nothing for the second wallet.
C31_Witness ==
  /\ transfer.pc = "failed"
  /\ transfer.error = "not confirmed within timeout window"
  /\ Len(transfer.selected) = 2
  /\ Submissions("approve", 1) = 2
  /\ Submissions("deposit", 1) = 1
  /\ Submissions("approve", 2) = 0
  /\ transfer.retriedOn = "failed with state=FAILED"


\* ---------------------------------------------------------------------
\* depositToGateway, poll by poll (backend/src/services/gatewayService.ts)
\* ---------------------------------------------------------------------

\* The defaults of the two polling loops.
maxAttempts == 80
pollIntervalMs == 400
balanceMaxAttempts == 60
balancePollIntervalMs == 1000

\* A Circle transaction that has reached no terminal state yet.
Initiated == "INITIATED"

\* The deposited amounts and the balances the escrow holds for the depositor
\* before the call, in base units.
DepositAmounts == {2}
EscrowBalances == {0, 1, 5}

\* getGatewayUsdcBalanceForDepositor: the balance the API reports, 0 when
\* it answers with an error or without a balance.
getGatewayUsdcBalanceForDepositor(answered, escrow) ==
  IF answered THEN escrow ELSE 0

\* One pass of the loop of waitForTransactionConfirmed, attempt counted from
\* 0: "return", "sleep", or the message of the error thrown; the pass that
\* sleeps last falls out of the loop into the timeout.
transactionPollReturnsWhenExhausted(state, attempt) ==
  IF state \in ConfirmedStates THEN "return"
  ELSE IF state \in FailedStates THEN waitForTransactionConfirmed(state)
  ELSE IF attempt + 1 < maxAttempts THEN "sleep"
  ELSE "return"

transactionPoll(state, attempt) ==
  IF state \in ConfirmedStates THEN "return"
  ELSE IF state \in FailedStates THEN waitForTransactionConfirmed(state)
  ELSE IF attempt + 1 < maxAttempts THEN "sleep"
  ELSE waitForTransactionConfirmed("timeout")

\* One pass of the loop of waitForGatewayBalanceIncrease, attempt counted
\* from 1.
balancePoll(currentBalance, startingBalance, expectedDelta, attempt) ==
  IF currentBalance >= startingBalance + expectedDelta THEN "return"
  ELSE IF attempt < balanceMaxAttempts THEN "sleep"
  ELSE "USDC balance did not increase by expected delta within timeout"

DepositThrows(error) ==
  deposit' = [deposit EXCEPT !.pc = "threw", !.error = error]

\* depositToGateway is called: the wallet's address is resolved.
DepositCall(amount, escrow, resolved) ==
  /\ deposit.pc = "idle"
  /\ IF resolved
       THEN deposit' = [deposit EXCEPT !.pc = "balanceBefore", !.amount = amount,
                                       !.escrow = escrow, !.escrowBefore = escrow]
       ELSE deposit' = [deposit EXCEPT !.pc = "threw", !.amount = amount,
                                       !.escrow = escrow, !.escrowBefore = escrow,
                                       !.error = "Unable to resolve wallet address"]
  /\ UNCHANGED <<now, pendingNonces, generated, facilitatorNetworkCache, preq, fac,
                 authorizationState, submitted, calls, selection, transfer, codec>>

\* The pre-deposit balance is captured.
CaptureBalanceBefore(answered) ==
  /\ deposit.pc = "balanceBefore"
  /\ deposit' =
       [deposit EXCEPT !.pc = "approve", !.attempt = 1,
          !.gatewayBalanceBefore =
             getGatewayUsdcBalanceForDepositor(answered, deposit.escrow)]
  /\ UNCHANGED <<now, pendingNonces, generated, facilitatorNetworkCache, preq, fac,
                 authorizationState, submitted, calls, selection, transfer, codec>>

\* An attempt of the approve or of the deposit loop prefunds and creates
\* its transaction.
CreateTransaction(created) ==
  /\ deposit.pc \in {"approve", "deposit"}
  /\ IF created
       THEN deposit' = [deposit EXCEPT
              !.pc = IF deposit.pc = "approve" THEN "approvePoll" ELSE "depositPoll",
              !.txState = Initiated, !.reads = 0, !.slept = 0, !.lastRead = ""]
       ELSE DepositThrows(IF deposit.pc = "approve"
                            THEN "Failed to create approval transaction"
                            ELSE "Failed to create deposit transaction")
  /\ UNCHANGED <<now, pendingNonces, generated, facilitatorNetworkCache, preq, fac,
                 authorizationState, submitted, calls, selection, transfer, codec>>

\* Circle moves the polled transaction to a terminal state.
TransactionEnds(state) ==
  /\ deposit.pc \in {"approvePoll", "depositPoll"}
  /\ deposit.txState = Initiated
  /\ deposit' = [deposit EXCEPT !.txState = state]
  /\ UNCHANGED <<now, pendingNonces, generated, facilitatorNetworkCache, preq, fac,
                 authorizationState, submitted, calls, selection, transfer, codec>>

\* The deposit transaction is on chain once Circle has confirmed it.
DepositOnChain ==
  \/ deposit.pc = "depositPoll" /\ deposit.txState \in ConfirmedStates
  \/ deposit.pc \in {"indexPoll", "returned"}
  \/ deposit.pc = "threw" /\ deposit.polls > 0

\* The Gateway indexes the confirmed deposit.
GatewayIndexes ==
  /\ DepositOnChain
  /\ ~deposit.credited
  /\ deposit' = [deposit EXCEPT !.credited = TRUE,
                                !.escrow = deposit.escrow + deposit.amount]
  /\ UNCHANGED <<now, pendingNonces, generated, facilitatorNetworkCache, preq, fac,
                 authorizationState, submitted, calls, selection, transfer, codec>>

\* One pass of waitForTransactionConfirmed and, when it ends the wait, the
\* try and catch around it; answered is whether the response carries a state.
PollTransaction(answered) ==
  /\ deposit.pc \in {"approvePoll", "depositPoll"}
  /\ LET state == IF answered THEN deposit.txState ELSE ""
         outcome == transactionPoll(state, deposit.reads)
         read == [deposit EXCEPT !.reads = deposit.reads + 1, !.lastRead = state]
         loop == IF deposit.pc = "approvePoll" THEN "approve" ELSE "deposit"
         slept == IF state \in ConfirmedStates \cup FailedStates
                    THEN deposit.slept ELSE deposit.slept + pollIntervalMs
     IN  CASE outcome = "return" ->
                deposit' = [read EXCEPT
                  !.pc = IF deposit.pc = "approvePoll" THEN "deposit" ELSE "indexPoll",
                  !.attempt = 1, !.slept = slept]
           [] outcome = "sleep" -> deposit' = [read EXCEPT !.slept = slept]
           [] OTHER ->
                IF ThrowsOn(outcome, deposit.attempt)
                  THEN deposit' = [read EXCEPT !.pc = "threw", !.error = outcome,
                                               !.slept = slept]
                  ELSE deposit' = [read EXCEPT !.pc = loop,
                                               !.attempt = deposit.attempt + 1]
  /\ UNCHANGED <<now, pendingNonces, generated, facilitatorNetworkCache, preq, fac,
                 authorizationState, submitted, calls, selection, transfer, codec>>

\* One pass of waitForGatewayBalanceIncrease; the last line of
\* depositToGateway returns the id when the wait returns.
PollBalance(answered) ==
  /\ deposit.pc = "indexPoll"
  /\ LET currentBalance ==
           getGatewayUsdcBalanceForDepositor(answered, deposit.escrow)
         outcome == balancePoll(currentBalance, deposit.gatewayBalanceBefore,
                                deposit.amount, deposit.polls + 1)
         polled == [deposit EXCEPT !.polls = deposit.polls + 1]
     IN  CASE outcome = "return" ->
                deposit' = [polled EXCEPT !.pc = "returned", !.returned = TRUE]
           [] outcome = "sleep" -> deposit' = polled
           [] OTHER -> deposit' = [polled EXCEPT !.pc = "threw", !.error = outcome]
  /\ UNCHANGED <<now, pendingNonces, generated, facilitatorNetworkCache, preq, fac,
                 authorizationState, submitted, calls, selection, transfer, codec>>

NextDeposit ==
  \/ \E amount \in DepositAmounts, escrow \in EscrowBalances, resolved \in BOOLEAN :
       DepositCall(amount, escrow, resolved)
  \/ \E answered \in BOOLEAN : CaptureBalanceBefore(answered)
  \/ \E created \in BOOLEAN : CreateTransaction(created)
  \/ \E state \in ConfirmedStates \cup FailedStates : TransactionEnds(state)
  \/ GatewayIndexes
  \/ \E answered \in BOOLEAN : PollTransaction(answered)
  \/ \E answered \in BOOLEAN : PollBalance(answered)

SpecDeposit == Init /\ [][NextDeposit]_vars

\* C32: depositToGateway returns the deposit transaction id only once the
\* balance the escrow reports for (domain, depositor) has grown by at least
\* the deposited amount over its value before the deposit; a wait that ends
\* on the timeout returns no id.
C32_ReturnsAfterIncrease ==
  /\ deposit.returned =>
       deposit.escrow >= deposit.escrowBefore + deposit.amount
  /\ (deposit.pc = "threw" /\ deposit.polls > 0) =>
       /\ deposit.polls = balanceMaxAttempts
       /\ ~deposit.returned
       /\ deposit.error = "USDC balance did not increase by expected delta within timeout"

\* The confirmation wait of the approve (deposit) loop returned normally in
\* this step.
WaitReturned ==
  \/ deposit.pc = "approvePoll" /\ deposit'.pc = "deposit"
  \/ deposit.pc = "depositPoll" /\ deposit'.pc = "indexPoll"

\* The messages of a wait that ended on a failed, denied or cancelled state.
FailureMessages == {waitForTransactionConfirmed(state) : state \in FailedStates}

\* C33: a confirmation wait reads the transaction at most maxAttempts times,
\* pollIntervalMs apart; it returns normally only on a read of CONFIRMED,
\* COMPLETE or CLEARED, throws the failure of the state on a read of FAILED,
\* DENIED or CANCELLED, and after maxAttempts reads without a terminal
\* state throws a timeout whose message is none of the failure messages and
\* which ends the call without an id.
C33_PollingEndsWithinMaxAttempts ==
  /\ [](deposit.reads <= maxAttempts)
  /\ [](deposit.pc \in {"approvePoll", "depositPoll"} =>
          /\ deposit.reads < maxAttempts
          /\ deposit.slept = deposit.reads * pollIntervalMs)
  /\ [][(deposit.pc \in {"approvePoll", "depositPoll"}
           /\ deposit'.reads = deposit.reads + 1) =>
          /\ WaitReturned <=> deposit'.lastRead \in ConfirmedStates
          /\ deposit'.lastRead \in FailedStates =>
               \/ /\ deposit'.pc = "threw"
                  /\ deposit'.error = waitForTransactionConfirmed(deposit'.lastRead)
                  /\ deposit'.error \in FailureMessages
               \/ /\ deposit'.lastRead = "FAILED"
                  /\ deposit.attempt < maxRetries
                  /\ deposit'.attempt = deposit.attempt + 1
                  /\ deposit'.pc \in {"approve", "deposit"}
          /\ deposit'.lastRead \notin ConfirmedStates \cup FailedStates =>
               /\ deposit'.slept = deposit.slept + pollIntervalMs
               /\ IF deposit'.reads = maxAttempts
                    THEN /\ deposit'.pc = "threw"
                         /\ deposit'.error = "not confirmed within timeout window"
                         /\ deposit'.error \notin FailureMessages
                         /\ ~deposit'.returned
                    ELSE /\ deposit'.pc = deposit.pc
                         /\ deposit'.error = ""]_vars
  /\ [](deposit.error = "not confirmed within timeout window" =>
          /\ deposit.pc = "threw"
          /\ deposit.reads = maxAttempts
          /\ deposit.slept = maxAttempts * pollIntervalMs
          /\ ~deposit.returned /\ deposit.polls = 0)

\* The deposit transaction of a call was read eighty times, reached no
\* terminal state, and the call ended on the timeout.
C33_Witness ==
  /\ deposit.pc = "threw"
  /\ deposit.error = "not confirmed within timeout window"
  /\ deposit.reads = maxAttempts
  /\ deposit.lastRead = Initiated
  /\ deposit.slept = 32000


\* ------------------------------------------------- nonce registry, frame
\* The key and the expiry of the record the i-th call issued.
IssuedKey(i) == buildNonceKey(calls[i].endpoint, calls[i].nonce)
IssuedExpiry(i) == calls[i].at + calls[i].endpoint.maxTimeoutSeconds

\* The record issued by call i was consumed by a call before call j.
ConsumedBefore(i, j) ==
  \E h \in ConsumeCalls :
    i < h /\ h < j /\ calls[h].result /\ buildNonceKey(calls[h].endpoint, calls[h].nonce) = IssuedKey(i)

\* C35: an issue or a consume (each with its sweep) leaves every unexpired
\* record other than the one being consumed in the registry with its expiry
\* unchanged; so a nonce that was issued and not consumed is consumable at
\* every time before its expiry, whatever was issued, consumed or swept in
\* between.
C35_OthersUntouched ==
  /\ \A j \in 1..Len(calls) :
       LET c == calls[j]
       IN \A k \in DOMAIN c.before :
            (Unexpired(c.before, k, c.at)
               /\ ~(c.op = "consume" /\ k = buildNonceKey(c.endpoint, c.nonce))) =>
              k \in DOMAIN c.after /\ c.after[k] = c.before[k]
  /\ \A i \in IssueCalls :
       /\ \A j \in ConsumeCalls :
            (i < j /\ buildNonceKey(calls[j].endpoint, calls[j].nonce) = IssuedKey(i)
               /\ calls[j].at < IssuedExpiry(i) /\ ~ConsumedBefore(i, j)) =>
              calls[j].result
       /\ (now < IssuedExpiry(i) /\ ~ConsumedBefore(i, Len(calls) + 1)) =>
            /\ IssuedKey(i) \in DOMAIN pendingNonces
            /\ pendingNonces[IssuedKey(i)] = IssuedExpiry(i)
            /\ consumeNonceResult(pendingNonces, calls[i].endpoint, calls[i].nonce, now)

\* A nonce was issued, then another was issued and consumed, and the first
\* one is still consumable.
C35_Witness ==
  \E i, j \in IssueCalls, h \in ConsumeCalls :
    /\ i < j /\ j < h /\ SameNonce(j, h) /\ calls[h].result
    /\ now < IssuedExpiry(i)
    /\ consumeNonceResult(pendingNonces, calls[i].endpoint, calls[i].nonce, now)

\* C36: right after an issue or a consume made at time t the registry holds
\* no record that expires at or before t, and no consume succeeds on a
\* record at or after its expiry.
C36_NoExpiredAfterCall ==
  /\ \A j \in 1..Len(calls) :
       \A k \in DOMAIN calls[j].after : calls[j].after[k] > calls[j].at
  /\ \A i \in IssueCalls, j \in ConsumeCalls :
       (i < j /\ buildNonceKey(calls[j].endpoint, calls[j].nonce) = IssuedKey(i)
          /\ calls[j].at >= IssuedExpiry(i)) => ~calls[j].result

\* A call found a record that expired in the very second of the call and
\* swept it.
C36_Witness ==
  \E j \in 1..Len(calls) :
    \E k \in DOMAIN calls[j].before :
      /\ calls[j].before[k] = calls[j].at
      /\ k \notin DOMAIN calls[j].after
      /\ calls[j].op = "issue"

\* C37: a consume of a nonce on an endpoint other than the one it was issued
\* for fails and leaves the record as it was; the nonce is afterwards
\* consumed on its own endpoint, once.
C37_BoundToEndpoint ==
  \A i \in IssueCalls :
    \A j \in ConsumeCalls :
      (i < j /\ calls[j].nonce = calls[i].nonce /\ calls[j].endpoint # calls[i].endpoint) =>
        /\ ~calls[j].result
        /\ IssuedKey(i) \in DOMAIN calls[j].before =>
             /\ calls[j].after = cleanupExpiredNonces(calls[j].before, calls[j].at)
             /\ Unexpired(calls[j].before, IssuedKey(i), calls[j].at) =>
                  /\ IssuedKey(i) \in DOMAIN calls[j].after
                  /\ calls[j].after[IssuedKey(i)] = IssuedExpiry(i)
        /\ \A h \in ConsumeCalls :
             (j < h /\ SameNonce(i, h) /\ calls[h].at < IssuedExpiry(i)) =>
               (calls[h].result <=> ~ConsumedBefore(i, h))

\* A nonce issued for one endpoint was refused on the other and then
\* consumed on its own.
C37_Witness ==
  \E i \in IssueCalls, j, h \in ConsumeCalls :
    /\ i < j /\ j < h
    /\ calls[j].nonce = calls[i].nonce /\ calls[j].endpoint # calls[i].endpoint
    /\ ~calls[j].result
    /\ SameNonce(i, h) /\ calls[h].result


\* ------------------------------------------- nonces of refused payments
\* Request p consumed its nonce and was then answered 402 by the handler's
\* catch block: the facilitator refused or failed to verify or settle.
FailedAfterConsume(p) ==
  /\ Decoded(p) /\ preq[p].consumed
  /\ preq[p].pc = "done" /\ preq[p].status = 402

\* C38: when the facilitator's verification or settlement of a request
\* fails after the request consumed its nonce, the nonce record is not put
\* back: the step that answers the request leaves the registry as it is,
\* with the record absent, and offers nothing; a later request presenting
\* the same nonce for the endpoint does not pass consumption, never reaches
\* the facilitator, and is answered 402 "Invoice expired" with an offer
\* under a nonce generated and registered for that answer.
C38_FailedPaymentKeepsNonceConsumed ==
  /\ [][\A p \in ProxyRequests :
          (preq[p].pc \in {"verify", "settle"} /\ preq'[p].pc = "done"
             /\ preq'[p].status = 402) =>
            /\ preq[p].consumed
            /\ pendingNonces' = pendingNonces
            /\ NonceKeyOf(p) \notin DOMAIN pendingNonces'
            /\ preq'[p].offer = 0 /\ preq'[p].accepts = {}
            /\ ~preq'[p].forwarded]_vars
  /\ [](\A p \in ProxyRequests :
          FailedAfterConsume(p) =>
            /\ NonceKeyOf(p) \notin DOMAIN pendingNonces
            /\ \A q \in ProxyRequests :
                 (p < q /\ SameOffer(p, q)) =>
                   /\ ~preq[q].consumed
                   /\ preq[q].message = InvoiceExpired
                   /\ fac[q].pc = "idle"
                   /\ preq[q].pc = "done" =>
                        /\ preq[q].status = 402 /\ preq[q].error = InvoiceExpired
                        /\ preq[q].offer \in 1..generated
                        /\ preq[q].offer # PayloadOf(q).payload.nonce
                        /\ \A e \in preq[q].accepts : e.nonce = preq[q].offer
                        /\ preq[q].accepts # {})
  /\ [][\A p, q \in ProxyRequests :
          (FailedAfterConsume(p) /\ p < q /\ SameOffer(p, q) /\ Answers402(q)) =>
            /\ preq'[q].offer = generated' /\ generated' = generated + 1
            /\ buildNonceKey(preq[q].endpoint, preq'[q].offer) \notin DOMAIN pendingNonces
            /\ buildNonceKey(preq[q].endpoint, preq'[q].offer) \in DOMAIN pendingNonces'
            /\ NonceKeyOf(p) \notin DOMAIN pendingNonces']_vars

\* A payment was verified, its settlement failed, and the same header sent
\* again was answered 402 "Invoice expired" with a new offer.
C38_Witness ==
  \E p, q \in ProxyRequests :
    /\ p < q /\ SameOffer(p, q) /\ preq[p].header = preq[q].header
    /\ FailedAfterConsume(p) /\ preq[p].verified
    /\ preq[q].pc = "done" /\ preq[q].status = 402 /\ preq[q].error = InvoiceExpired
    /\ preq[q].offer # 0 /\ preq[q].offer # PayloadOf(q).payload.nonce


\* ---------------------------------------------------------------------
\* The client SDK paying for an offer (src/sdk/client.ts, payload.ts)
\* ---------------------------------------------------------------------

\* prepareEIP712Payload for the offer taken from a 402 answer, issuedAt being
\* nowSeconds() of the client: the message to sign, its times as text.
prepareEIP712Payload(offer, payerAddress, issuedAt) ==
  [message |-> [from |-> payerAddress, to |-> offer.payTo,
                value |-> offer.maxAmountRequired,
                validAfter |-> NumberToText(issuedAt),
                validBefore |-> NumberToText(issuedAt + offer.maxTimeoutSeconds),
                nonce |-> offer.nonce],
   network |-> offer.network, scheme |-> offer.scheme]

\* The payload of the header base64Payload builds from the prepared message
\* signed with key, its times as toAuthorization's Number() reads them.
SdkPaymentPayload(prepared, key) ==
  SignedPayload(prepared.network, prepared.message.from, prepared.message.to,
                prepared.message.value, TextToNumber(prepared.message.validAfter),
                TextToNumber(prepared.message.validBefore), prepared.message.nonce, key)

\* payPerRequest: request p pays for an offer of the 402 answer to request
\* q, prepared at issuedAt, no earlier than the offer and no later than now.
SdkPay(p, q, offer, issuedAt) ==
  /\ preq[q].pc = "done" /\ preq[q].status = 402
  /\ offer \in preq[q].accepts
  /\ buildNonceKey(preq[q].endpoint, offer.nonce) \in DOMAIN pendingNonces
  /\ issuedAt >= pendingNonces[buildNonceKey(preq[q].endpoint, offer.nonce)]
                   - offer.maxTimeoutSeconds
  /\ issuedAt <= now
  /\ ProxyReceive(p, preq[q].endpoint,
                  HeaderOf(SdkPaymentPayload(prepareEIP712Payload(offer, Payer, issuedAt),
                                             Payer)))

\* One client: it asks for an offer, prepares and signs a payment with the
\* SDK and presents it.
NextSdk ==
  \/ Tick
  \/ \E e \in Endpoints : ProxyReceive(1, e, NoHeader)
  \/ \E p \in 1..2 : ProxyRespond(p)
  \/ ProxyRespondLoading(1, FacilitatorNetworks)
  \/ \E offer \in preq[1].accepts, issuedAt \in 0..MaxTime : SdkPay(2, 1, offer, issuedAt)
  \/ ProxyVerifyResponse(2)
  \/ ProxySettleResponse(2)
  \/ FacReceive(2)
  \/ FacRead(2)
  \/ FacDecide(2)
  \/ FacSettleRespond(2)
  \/ FacSettleNoData(2)
  \/ \E i \in 1..Len(submitted) : Mine(i)

SpecSdk == Init /\ [][NextSdk]_vars

\* C39: a payment the SDK prepared at time issuedAt from an offer, signed by
\* the payer and presented while its nonce was unconsumed, passes the
\* verifier's validity window whenever the window is checked at a time t
\* with issuedAt <= t < validBefore, the second of its preparation included.
C39_SdkPaymentInsideWindow ==
  \A p \in ProxyRequests :
    LET f == fac[p]
        auth == toAuthorization(f.paymentPayload)
    IN (/\ Decoded(p) /\ preq[p].consumed
        /\ f.pc = "done" /\ f.checkedAt >= 0
        /\ auth.validAfter <= f.checkedAt /\ f.checkedAt < auth.validBefore)
       => /\ f.error \notin {"Authorization not yet valid", "Authorization expired"}
          /\ ValidityWindow(auth, f.checkedAt) = Null

====
